---- MODULE Spec2Model ----
(***************************************************************************)
(* agentlib: one run of a reasoning engine (ReAct, Chain-of-Thought,       *)
(* Planner, Reflect, Autonomous) over the shared reasoning context         *)
(* (pushStep, callTool), the middleware pipeline and the tool registry.    *)
(*                                                                         *)
(* A run is sequential: it suspends only at model.complete and inside      *)
(* callTool.  One action is one resumption of the engine: the receipt of a *)
(* model response and everything the engine does up to its next await, or  *)
(* one whole callTool invocation and the engine code that follows it.      *)
(* The model backend, the tool bodies and the middleware are external: a   *)
(* response, the outcome of a tool body (returns or throws) are inputs     *)
(* drawn with \E; the pipeline is drawn in Init.                           *)
(*                                                                         *)
(* Text is a sequence of tokens, so that extractText really removes        *)
(* something.  An optional value (a field that may be undefined) is <<>>   *)
(* when absent and <<v>> when present.                                     *)
(***************************************************************************)
EXTENDS Integers, Sequences, FiniteSets, TLC

\* ------------------------------------------------------------------ bounds

\* ReactEngineConfig.maxSteps / AutonomousEngineConfig.maxSteps of the run
MaxSteps == 3
\* ChainOfThoughtEngineConfig.maxToolSteps of the run
MaxToolSteps == 2
\* ReflectEngineConfig.maxAnswerSteps of the run
MaxAnswerSteps == 2
\* largest ReflectEngineConfig.maxReflections a run is configured with
MaxReflectionsBound == 2
\* PlannerEngineConfig.maxExecutionSteps of the run
MaxExecutionSteps == 2
\* how many runs the agent is asked for
MaxRuns == 2
\* policy.tokenBudget of the runs that set one
TokenBudget == 6

\* ------------------------------------------------------- program constants

\* planner.ts: const maxTaskSteps = 5
MaxTaskSteps == 5
\* reflect.ts: acceptanceThreshold default
AcceptanceThreshold == 8
\* reflect.ts: score of the critique assumed when the critique text does not parse
FallbackScore == 9

\* reflect.ts: ReactEngine maxSteps default
ReactDefaultMaxSteps == 10
\* planner.ts: AutonomousEngine maxSteps default
AutonomousDefaultMaxSteps == 30

\* ------------------------------------------------------------------- text

None == <<>>
Some(v) == <<v>>

Empty == <<>>
Ans == <<"ans">>
Other == <<"other">>
ThinkAns == <<"<thinking>", "why", "</thinking>", " ", "ans">>
ThinkOnly == <<"<thinking>", "why", "</thinking>">>

RECURSIVE FirstIndex(_, _, _)
\* index of the first occurrence of token t in s at or after position i, 0 if none
FirstIndex(s, t, i) ==
    IF i > Len(s) THEN 0
    ELSE IF s[i] = t THEN i
    ELSE FirstIndex(s, t, i + 1)

RECURSIVE StripBlocks(_, _, _)
\* String.replace(/<open>[\s\S]*?<\/close>/gi, ''): every non-greedy block is removed
StripBlocks(s, open, close) ==
    LET i == FirstIndex(s, open, 1)
        j == IF i = 0 THEN 0 ELSE FirstIndex(s, close, i + 1)
    IN  IF i = 0 \/ j = 0 THEN s
        ELSE SubSeq(s, 1, i - 1) \o StripBlocks(SubSeq(s, j + 1, Len(s)), open, close)

RECURSIVE Trim(_)
\* String.trim()
Trim(s) ==
    IF s = <<>> THEN s
    ELSE IF Head(s) = " " THEN Trim(Tail(s))
    ELSE IF s[Len(s)] = " " THEN Trim(SubSeq(s, 1, Len(s) - 1))
    ELSE s

\* utils.extractText
ExtractText(content) ==
    Trim(StripBlocks(StripBlocks(content, "<thinking>", "</thinking>"),
                     "<thought>", "</thought>"))

\* ChainOfThoughtEngine._extractThinking: the trimmed body of the first block, or absent
ExtractThinking(content) ==
    LET i == FirstIndex(content, "<thinking>", 1)
        j == IF i = 0 THEN 0 ELSE FirstIndex(content, "</thinking>", i + 1)
    IN  IF i = 0 \/ j = 0 THEN None
        ELSE Some(Trim(SubSeq(content, i + 1, j - 1)))

\* ------------------------------------------------------------ tool registry

\* the names in ToolRegistry.tools (AgentInstance.tool / config.tools)
Registered == {"search", "calc"}
\* tool names a model response may carry
ToolNames == Registered \cup {"ghost", "finish"}
\* AutonomousEngineConfig.finishToolName default
FinishToolName == "finish"

\* a ToolDefinition: its schema (name, description)
Definition(name, description) ==
    [schema |-> [name |-> name, description |-> description]]

\* new ToolRegistry(): the empty Map
NoTools == << >>

\* a register that leaves a name already registered as it is
RegisterKeepFirst(registry, tool) ==
    IF tool.schema.name \in DOMAIN registry THEN registry
    ELSE [n \in (DOMAIN registry) \cup {tool.schema.name} |->
             IF n = tool.schema.name THEN tool ELSE registry[n]]

\* ToolRegistry.register(tool): this.tools.set(tool.schema.name, tool)
Register(registry, tool) ==
    [n \in (DOMAIN registry) \cup {tool.schema.name} |->
        IF n = tool.schema.name THEN tool ELSE registry[n]]

\* ToolRegistry.get(name): the definition, or undefined
Get(registry, name) ==
    IF name \in DOMAIN registry THEN <<registry[name]>> ELSE << >>

\* the registry of the agent that runs: its tools registered one by one
AgentTools ==
    Register(Register(NoTools, Definition("search", "d1")), Definition("calc", "d1"))

\* ToolRegistry.get(name) !== undefined
HasTool(name) == name \in Registered

IsAllowedNoList(name, allowedTools) == TRUE
\* ToolRegistry.isAllowed: no list allows everything, a list allows its members
IsAllowed(name, allowedTools) ==
    IF allowedTools = None THEN TRUE ELSE name \in allowedTools[1]

\* ------------------------------------------------------ middleware pipeline

Scopes == {"run:before", "run:after", "step:before", "step:after",
           "tool:before", "tool:after"}

\* a middleware: its name, its scope (absent, or a set of scopes) and what its run
\* does: "next" awaits next(), "skip" returns without calling next, "throw" throws
\* without calling next, "after" awaits next() and then throws
Mw(name, scope, act) == [name |-> name, scope |-> scope, act |-> act]

ScopedAll(mws, scope) == mws
\* MiddlewarePipeline.run: the filter
Scoped(mws, scope) ==
    SelectSeq(mws, LAMBDA m : m.scope = None \/ scope \in m.scope[1])

RECURSIVE Dispatch(_, _)
\* MiddlewarePipeline.run: dispatch(index); the names invoked in order, and the
\* error thrown if any
Dispatch(scoped, index) ==
    IF index > Len(scoped) THEN [invoked |-> <<>>, threw |-> None]
    ELSE LET m == scoped[index]
         IN  CASE m.act = "throw" ->
                    [invoked |-> <<m.name>>, threw |-> Some(<<"MiddlewareError", m.name>>)]
               [] m.act = "skip" ->
                    [invoked |-> <<m.name>>, threw |-> None]
               [] m.act = "after" ->
                    LET rest == Dispatch(scoped, index + 1)
                    IN  [invoked |-> <<m.name>> \o rest.invoked,
                         threw |-> IF rest.threw # None THEN rest.threw
                                   ELSE Some(<<"MiddlewareError", m.name>>)]
               [] OTHER ->
                    LET rest == Dispatch(scoped, index + 1)
                    IN  [invoked |-> <<m.name>> \o rest.invoked, threw |-> rest.threw]

\* MiddlewarePipeline.run
MiddlewareRun(mws, scope) == Dispatch(Scoped(mws, scope), 1)

\* ---------------------------------------------------------------- the state

VARIABLES
    engine,       \* the ReasoningEngine the run resolved to
    policy,       \* AgentPolicy: allowedTools (optional), tokenBudget and maxSteps
                  \* (0: not set)
    middlewares,  \* MiddlewarePipeline.middlewares
    config,       \* the engine's configuration
    state,        \* ctx.state: steps, messages, toolCalls, usage
    trace,        \* what the run did, in order: events emitted, middleware run,
                  \* tool bodies invoked, callTool's pushes, returns and throws,
                  \* and the status given to a plan task
    pc,           \* "start", "model", "tool", "returned", "thrown"
    phase,        \* which await of the engine the run is suspended at
    pending,      \* the tool calls of the current turn still to execute
    frame,        \* the local variables of the engine's execute
    nextId,       \* tool-call ids handed out so far
    responses,    \* the model responses received so far
    output,       \* the text execute returned (present once pc = "returned")
    error,        \* the error execute threw (present once pc = "thrown")
    runNo,        \* which run of the agent this is: 1, 2, ...
    memory,       \* the MemoryProvider (type "none": the agent has no memory)
    memLog,       \* the operations made on the memory provider, in order
    tools,        \* ToolRegistry.tools: a tool name to the definition registered
    toolLog       \* the operations made on the tool registry, in order

vars == << engine, policy, middlewares, config, state, trace, pc, phase, pending,
           frame, nextId, responses, output, error, runNo, memory, memLog,
           tools, toolLog >>

Engines == {"react", "cot", "planner", "reflect", "autonomous", "passthrough"}

\* an agent built without .memory(): ctx.memory is null
NoMemory == [type |-> "none"]

\* emptyUsage()
EmptyUsage == [promptTokens |-> 0, completionTokens |-> 0, totalTokens |-> 0]

\* emptyState()
EmptyState == [steps |-> <<>>, messages |-> <<>>, toolCalls |-> <<>>, usage |-> EmptyUsage]

\* ------------------------------------------------------- reasoning context

\* the part of the run that pushStep and callTool write: ctx.state and the trace
World == [state |-> state, trace |-> trace]

\* messages.push
PushMessage(w, msg) == [w EXCEPT !.state.messages = Append(@, msg)]

PushStepSilent(w, step) == [w EXCEPT !.state.steps = Append(@, step)]
\* ReasoningContext.pushStep
PushStep(w, step) ==
    [w EXCEPT !.state.steps = Append(@, step),
              !.trace = Append(@, <<"emit", "step:reasoning", step.type>>)]

Log(w, entries) == [w EXCEPT !.trace = @ \o entries]

\* the trace entries of one middleware.run call made for tool call callId
MwTrace(run, scope, callId) ==
    [k \in 1..Len(run.invoked) |-> <<"middleware", scope, run.invoked[k], callId>>]

\* what a tool body returns, and the error it throws
ToolResult == <<"data">>
ToolError == <<"ToolError", <<"boom">>>>
Null == <<"null">>

\* JSON.stringify of a result, of {error} and of {done: true}
StringifyResult(r) == <<"\"">> \o r \o <<"\"">>
StringifyError(msg) == <<"{\"error\":">> \o msg \o <<"}">>
StringifyDone == <<"{\"done\":true}">>

CallToolFailureNoRecord(w, name, args, callId, mws) ==
    [w |-> Log(w, <<<<"throw", ToolError, callId>>>>),
     raised |-> Some(ToolError), result |-> None]
\* callTool, lines 71-95: the tool body threw
CallToolFailure(w, name, args, callId, mws) ==
    LET err == ToolError
        step == [type |-> "tool_result", toolName |-> name, callId |-> callId,
                 result |-> Null, error |-> Some(err[2]), engine |-> "runtime"]
        w1 == PushStepSilent(w, step)
        w2 == [w1 EXCEPT !.state.toolCalls =
                   Append(@, [call |-> [id |-> callId, name |-> name, arguments |-> args],
                              result |-> Null])]
        w3 == PushMessage(w2, [role |-> "tool", content |-> StringifyError(err[2]),
                               toolCallId |-> Some(callId), toolCalls |-> None])
        after == MiddlewareRun(mws, "tool:after")
        w4 == Log(w3, <<<<"steps.push", callId>>, <<"toolCalls.push", callId>>,
                        <<"messages.push", callId>>, <<"emit", "tool:after", callId>>>>
                      \o MwTrace(after, "tool:after", callId))
        raised == IF after.threw # None THEN after.threw[1] ELSE err
    IN  [w |-> Log(w4, <<<<"throw", raised, callId>>>>),
         raised |-> Some(raised), result |-> None]

\* callTool, lines 97-116: the tool body returned
CallToolSuccess(w, name, args, callId, mws) ==
    LET result == ToolResult
        step == [type |-> "tool_result", toolName |-> name, callId |-> callId,
                 result |-> result, error |-> None, engine |-> "runtime"]
        w1 == PushStepSilent(w, step)
        w2 == [w1 EXCEPT !.state.toolCalls =
                   Append(@, [call |-> [id |-> callId, name |-> name, arguments |-> args],
                              result |-> result])]
        w3 == PushMessage(w2, [role |-> "tool", content |-> StringifyResult(result),
                               toolCallId |-> Some(callId), toolCalls |-> None])
        after == MiddlewareRun(mws, "tool:after")
        w4 == Log(w3, <<<<"steps.push", callId>>, <<"toolCalls.push", callId>>,
                        <<"messages.push", callId>>, <<"emit", "tool:after", callId>>>>
                      \o MwTrace(after, "tool:after", callId))
    IN  IF after.threw # None
        THEN [w |-> Log(w4, <<<<"throw", after.threw[1], callId>>>>),
              raised |-> after.threw, result |-> None]
        ELSE [w |-> Log(w4, <<<<"return", callId>>>>),
              raised |-> None, result |-> Some(result)]

CallToolSkipPrevents(w, name, args, callId, body) ==
    IF ~HasTool(name)
    THEN [w |-> w, raised |-> Some(<<"Error", "Unknown tool">>), result |-> None]
    ELSE IF ~IsAllowed(name, policy.allowedTools)
    THEN [w |-> w, raised |-> Some(<<"Error", "Tool not allowed by policy">>),
          result |-> None]
    ELSE LET before == MiddlewareRun(middlewares, "tool:before")
             scoped == Scoped(middlewares, "tool:before")
             w1 == Log(w, <<<<"emit", "tool:before", callId>>>>
                          \o MwTrace(before, "tool:before", callId))
         IN  IF before.threw # None
             THEN [w |-> Log(w1, <<<<"throw", before.threw[1], callId>>>>),
                   raised |-> before.threw, result |-> None]
             ELSE IF before.invoked # <<>> /\ scoped[Len(before.invoked)].act = "skip"
             THEN [w |-> w1, raised |-> None, result |-> None]
             ELSE LET w2 == Log(w1, <<<<"execute", name, callId, body>>>>)
                  IN  IF body = "throws"
                      THEN CallToolFailure(w2, name, args, callId, middlewares)
                      ELSE CallToolSuccess(w2, name, args, callId, middlewares)

\* ReasoningContext.callTool(name, args, callId); body is what the tool body does
\* if it is invoked: "returns" or "throws".  The new ctx.state and trace, the error
\* raised to the engine if any, the result returned otherwise.
CallTool(w, name, args, callId, body) ==
    IF ~HasTool(name)
    THEN [w |-> w, raised |-> Some(<<"Error", "Unknown tool">>), result |-> None]
    ELSE IF ~IsAllowed(name, policy.allowedTools)
    THEN [w |-> w, raised |-> Some(<<"Error", "Tool not allowed by policy">>),
          result |-> None]
    ELSE LET before == MiddlewareRun(middlewares, "tool:before")
             w1 == Log(w, <<<<"emit", "tool:before", callId>>>>
                          \o MwTrace(before, "tool:before", callId))
         IN  IF before.threw # None
             THEN [w |-> Log(w1, <<<<"throw", before.threw[1], callId>>>>),
                   raised |-> before.threw, result |-> None]
             ELSE LET w2 == Log(w1, <<<<"execute", name, callId, body>>>>)
                  IN  IF body = "throws"
                      THEN CallToolFailure(w2, name, args, callId, middlewares)
                      ELSE CallToolSuccess(w2, name, args, callId, middlewares)

\* ------------------------------------------------------------ model backend

\* TokenUsage values a response reports
Light == [promptTokens |-> 1, completionTokens |-> 1, totalTokens |-> 2]
Heavy == [promptTokens |-> TokenBudget - 1, completionTokens |-> 1, totalTokens |-> TokenBudget]

\* a tool call as the model writes it; its id is given on receipt
Call(name) == [name |-> name, arguments |-> [q |-> <<"x">>]]
FinishWith(x) == [name |-> "finish", arguments |-> [result |-> x]]

\* a response as the model writes it
Resp(content, calls, usage) == [content |-> content, calls |-> calls, usage |-> usage]

\* ModelProvider.complete: the ModelResponse {message, toolCalls, usage}, the k-th
\* call of the response getting the id nextId + k
Receive(r) ==
    LET calls == [k \in 1..Len(r.calls) |->
                    [id |-> nextId + k, name |-> r.calls[k].name,
                     arguments |-> r.calls[k].arguments]]
    IN  [message |-> [role |-> "assistant", content |-> r.content,
                      toolCallId |-> None, toolCalls |-> calls],
         toolCalls |-> calls,
         usage |-> r.usage]

AddUsageOverwrite(u, r) == r
\* the usage accumulation of callModel, of AutonomousEngine.execute and of the
\* passthrough engine
AddUsage(u, r) ==
    [promptTokens |-> u.promptTokens + r.promptTokens,
     completionTokens |-> u.completionTokens + r.completionTokens,
     totalTokens |-> u.totalTokens + r.totalTokens]

\* policy.tokenBudget && ctx.state.usage.totalTokens >= policy.tokenBudget
OverBudget(total, tokenBudget) == tokenBudget # 0 /\ total >= tokenBudget

\* utils.callModel after model.complete returned response: the usage is accumulated
\* and the budget checked; the response is returned unless the budget error is thrown
CallModel(w, response) ==
    IF response.usage = None THEN [w |-> w, raised |-> None]
    ELSE LET w1 == [w EXCEPT !.state.usage = AddUsage(@, response.usage[1])]
         IN  IF OverBudget(w1.state.usage.totalTokens, policy.tokenBudget)
             THEN [w |-> w1, raised |-> Some(<<"Error", "Token budget exceeded">>)]
             ELSE [w |-> w1, raised |-> None]

\* ------------------------------------------------------------ run and engine

\* the policy and the pipeline a run is configured with; a tokenBudget or a maxSteps
\* of 0 stands for one that is not set
Setup(allowedTools, tokenBudget, maxSteps, mws) ==
    [policy |-> [allowedTools |-> allowedTools, tokenBudget |-> tokenBudget,
                 maxSteps |-> maxSteps],
     middlewares |-> mws]
Setups ==
    { Setup(None, 0, 0, <<>>),
      Setup(Some({"search"}), 0, 1, << Mw("log", None, "next") >>),
      Setup(None, TokenBudget, 0, <<>>),
      Setup(None, 0, 0, << Mw("guard", Some({"tool:before"}), "throw") >>),
      Setup(None, 0, 0, << Mw("audit", Some({"tool:after"}), "throw") >>),
      Setup(Some({"search"}), TokenBudget, 0,
            << Mw("gate", Some({"tool:before", "tool:after"}), "skip"),
               Mw("log", None, "next") >>) }

\* ReactEngine and AutonomousEngine constructors: config.maxSteps ?? default
ReactMaxSteps(given) == IF given = None THEN ReactDefaultMaxSteps ELSE given[1]
AutonomousMaxSteps(given) == IF given = None THEN AutonomousDefaultMaxSteps ELSE given[1]

\* the configuration of the engine of a run
Configs(e) ==
    CASE e = "react" -> {[maxSteps |-> ReactMaxSteps(Some(MaxSteps))]}
      [] e = "autonomous" -> {[maxSteps |-> AutonomousMaxSteps(Some(MaxSteps))]}
      [] e = "cot" -> {[maxToolSteps |-> MaxToolSteps, useThinkingTags |-> TRUE]}
      [] e = "planner" -> [maxExecutionSteps : {MaxExecutionSteps}, allowReplan : BOOLEAN]
      [] e = "passthrough" -> {[name |-> "passthrough"]}
      [] e = "reflect" -> [maxReflections : 0..MaxReflectionsBound,
                           acceptanceThreshold : {AcceptanceThreshold},
                           maxAnswerSteps : {MaxAnswerSteps}]

\* the user input of the run
Input == <<"question">>
SystemPrompt == <<"system prompt">>

Init ==
    /\ engine \in Engines
    /\ \E s \in Setups : policy = s.policy /\ middlewares = s.middlewares
    /\ config \in Configs(engine)
    /\ state = EmptyState
    /\ trace = <<>>
    /\ pc = "start"
    /\ phase = "start"
    /\ pending = <<>>
    /\ frame = [steps |-> 0]
    /\ nextId = 0
    /\ responses = <<>>
    /\ output = None
    /\ error = None
    /\ runNo = 1
    /\ memory = NoMemory
    /\ memLog = <<>>
    /\ tools = AgentTools
    /\ toolLog = <<>>

\* what a step of a run leaves alone: the agent's configuration, the run's number
\* and the memory provider (createAgent without .memory())
setup == << engine, policy, middlewares, config, runNo, memory, memLog, tools, toolLog >>

\* the engine goes on with world w, suspended at a model call
AwaitModel(w, ph, fr) ==
    /\ state' = w.state
    /\ trace' = w.trace
    /\ pc' = "model"
    /\ phase' = ph
    /\ pending' = <<>>
    /\ frame' = fr
    /\ UNCHANGED << output, error >>

\* the engine goes on with world w, about to call the tools in calls
AwaitTools(w, ph, fr, calls) ==
    /\ state' = w.state
    /\ trace' = w.trace
    /\ pc' = "tool"
    /\ phase' = ph
    /\ pending' = calls
    /\ frame' = fr
    /\ UNCHANGED << output, error >>

\* execute returns text
Return(w, fr, text) ==
    /\ state' = w.state
    /\ trace' = w.trace
    /\ pc' = "returned"
    /\ pending' = <<>>
    /\ frame' = fr
    /\ output' = Some(text)
    /\ UNCHANGED << phase, error >>

\* execute throws err
Throw(w, fr, err) ==
    /\ state' = w.state
    /\ trace' = w.trace
    /\ pc' = "thrown"
    /\ frame' = fr
    /\ error' = Some(err)
    /\ UNCHANGED << phase, pending, output >>

\* the first await of each engine's execute
FirstPhase(e) ==
    CASE e = "react" -> "loop"
      [] e = "autonomous" -> "loop"
      [] e = "cot" -> "first"
      [] e = "planner" -> "plan"
      [] e = "reflect" -> "generate"
      [] e = "passthrough" -> "only"

\* the local variables of each engine's execute as it starts
FirstFrame(e) ==
    CASE e = "react" -> [steps |-> 0]
      [] e = "autonomous" -> [steps |-> 0]
      [] e = "cot" -> [toolSteps |-> 0, sent |-> <<>>]
      [] e = "planner" -> [plan |-> <<>>, planStep |-> 0, index |-> 0, taskResults |-> <<>>,
                           executionSteps |-> 0, steps |-> 0, taskMessages |-> <<>>,
                           synthInput |-> None]
      [] e = "reflect" -> [answer |-> <<>>, i |-> 0, steps |-> 0, critique |-> None]
      [] e = "passthrough" -> [steps |-> 0]

\* AgentInstance._executeWithEngine up to engine.execute: the messages are seeded
\* with the system prompt and the user input (no memory provider attached)
RunStart ==
    /\ pc = "start"
    /\ LET w == PushMessage(PushMessage(World,
                    [role |-> "system", content |-> SystemPrompt,
                     toolCallId |-> None, toolCalls |-> <<>>]),
                    [role |-> "user", content |-> Input,
                     toolCallId |-> None, toolCalls |-> <<>>])
       IN  AwaitModel(w, FirstPhase(engine), FirstFrame(engine))
    /\ UNCHANGED << setup, nextId, responses >>

\* the model's answer is received: the bookkeeping every model turn shares
Received(r) ==
    /\ responses' = Append(responses, Receive(r))
    /\ nextId' = nextId + Len(r.calls)
    /\ UNCHANGED setup

\* AgentInstance.run called again once a run is over: createContext makes a new
\* ExecutionContext, whose state is emptyState()
RunAgain ==
    /\ pc \in {"returned", "thrown"}
    /\ runNo < MaxRuns
    /\ runNo' = runNo + 1
    /\ state' = EmptyState
    /\ trace' = <<>>
    /\ pc' = "start"
    /\ phase' = "start"
    /\ pending' = <<>>
    /\ frame' = [steps |-> 0]
    /\ nextId' = 0
    /\ responses' = <<>>
    /\ output' = None
    /\ error' = None
    /\ UNCHANGED << engine, policy, middlewares, config, memory, memLog, tools, toolLog >>

\* --------------------------------------------------------------- passthrough

PassthroughResponses ==
    { Resp(Ans, <<>>, Some(Light)),
      Resp(ThinkAns, <<>>, None),
      Resp(Other, <<Call("search")>>, Some(Heavy)) }

\* createPassthroughEngine().execute: the one model turn
PassthroughModel ==
    /\ pc = "model" /\ engine = "passthrough"
    /\ \E r \in PassthroughResponses :
         LET response == Receive(r)
             w1 == IF response.usage = None THEN World
                   ELSE [World EXCEPT !.state.usage = AddUsage(@, response.usage[1])]
             w2 == PushMessage(w1, response.message)
             w3 == PushStep(w2, [type |-> "response",
                                 content |-> response.message.content,
                                 engine |-> "passthrough"])
         IN  /\ Received(r)
             /\ Return(w3, frame, response.message.content)

\* --------------------------------------------------------------------- ReAct

ReactResponses ==
    { Resp(Ans, <<>>, Some(Light)),
      Resp(ThinkAns, <<>>, None),
      Resp(Empty, <<>>, Some(Light)),
      Resp(Other, <<Call("search")>>, Some(Light)),
      Resp(Empty, <<Call("search")>>, Some(Heavy)),
      Resp(Empty, <<Call("calc"), Call("search")>>, Some(Light)),
      Resp(Empty, <<Call("ghost")>>, Some(Light)) }

ReactLoopOneMore(w, fr) ==
    IF fr.steps <= config.maxSteps
    THEN AwaitModel(w, "loop", fr)
    ELSE Throw(w, fr, <<"Error", "Max steps reached">>)
\* ReactEngine.execute: the loop test and what follows the loop
ReactLoop(w, fr) ==
    IF fr.steps < config.maxSteps
    THEN AwaitModel(w, "loop", fr)
    ELSE Throw(w, fr, <<"Error", "Max steps reached">>)

\* ReactEngine.execute, lines 260-282: one model turn
ReactModel ==
    /\ pc = "model" /\ engine = "react"
    /\ \E r \in ReactResponses :
         LET response == Receive(r)
             cm == CallModel(World, response)
             w1 == PushMessage(cm.w, response.message)
             w2 == IF response.message.content # <<>> /\ response.toolCalls # <<>>
                   THEN PushStep(w1, [type |-> "thought",
                                      content |-> response.message.content,
                                      engine |-> "react"])
                   ELSE w1
         IN  /\ Received(r)
             /\ IF cm.raised # None THEN Throw(cm.w, frame, cm.raised[1])
                ELSE IF response.toolCalls = <<>>
                THEN Return(PushStep(w2, [type |-> "response",
                                          content |-> response.message.content,
                                          engine |-> "react"]),
                            frame, response.message.content)
                ELSE AwaitTools(w2, "loop", frame, response.toolCalls)

\* ReactEngine.execute, lines 285-286: executeToolCalls, one callTool at a time
ReactTool ==
    /\ pc = "tool" /\ engine = "react"
    /\ \E body \in {"returns", "throws"} :
         LET tc == Head(pending)
             ct == CallTool(World, tc.name, tc.arguments, tc.id, body)
         IN  IF ct.raised # None THEN Throw(ct.w, frame, ct.raised[1])
             ELSE IF Tail(pending) # <<>>
             THEN AwaitTools(ct.w, "loop", frame, Tail(pending))
             ELSE ReactLoop(ct.w, [frame EXCEPT !.steps = @ + 1])
    /\ UNCHANGED << setup, nextId, responses >>

\* ---------------------------------------------------------------- Autonomous

AutonomousResponses ==
    { Resp(Ans, <<FinishWith(Some(Other))>>, Some(Light)),
      Resp(Empty, <<FinishWith(Some(Ans))>>, Some(Heavy)),
      Resp(Ans, <<FinishWith(None)>>, None),
      Resp(Empty, <<Call("search"), FinishWith(Some(Ans))>>, Some(Light)),
      Resp(Empty, <<Call("search")>>, Some(Light)),
      Resp(Other, <<Call("calc")>>, Some(Light)),
      Resp(Empty, <<Call("ghost")>>, Some(Light)),
      Resp(ThinkAns, <<>>, Some(Light)) }

\* String(v) of a value that is a string
StringOf(v) == v

\* v ?? d
Coalesce(v, d) == IF v = None THEN d ELSE v[1]

\* toolCalls.find((tc) => tc.name === name): the first such call, or absent
Find(calls, name) ==
    LET hits == SelectSeq(calls, LAMBDA tc : tc.name = name)
    IN  IF hits = <<>> THEN None ELSE Some(Head(hits))

\* AutonomousEngine.execute, lines 351-359: usage accumulation and budget check
AutonomousUsage(w, response) ==
    IF response.usage = None THEN [w |-> w, raised |-> None]
    ELSE LET w1 == [w EXCEPT !.state.usage = AddUsage(@, response.usage[1])]
         IN  IF OverBudget(w1.state.usage.totalTokens, policy.tokenBudget)
             THEN [w |-> w1, raised |-> Some(<<"Error", "Token budget exceeded">>)]
             ELSE [w |-> w1, raised |-> None]

AutonomousLoopOneMore(w, fr) ==
    IF fr.steps <= config.maxSteps
    THEN AwaitModel(w, "loop", fr)
    ELSE Throw(w, fr, <<"Error", "Max steps reached">>)
\* AutonomousEngine.execute: the loop test and what follows the loop
AutonomousLoop(w, fr) ==
    IF fr.steps < config.maxSteps
    THEN AwaitModel(w, "loop", fr)
    ELSE Throw(w, fr, <<"Error", "Max steps reached">>)

AutonomousFinishContent(w, response, finishCall) ==
    LET result == StringOf(response.message.content)
        w1 == PushMessage(w, [role |-> "tool", content |-> StringifyDone,
                              toolCallId |-> Some(finishCall.id), toolCalls |-> <<>>])
        w2 == PushStep(w1, [type |-> "response", content |-> result,
                            engine |-> "autonomous"])
    IN  Return(w2, frame, result)
\* AutonomousEngine.execute, lines 376-390: the turn called finish
AutonomousFinish(w, response, finishCall) ==
    LET result == StringOf(Coalesce(finishCall.arguments.result, response.message.content))
        w1 == PushMessage(w, [role |-> "tool", content |-> StringifyDone,
                              toolCallId |-> Some(finishCall.id), toolCalls |-> <<>>])
        w2 == PushStep(w1, [type |-> "response", content |-> result,
                            engine |-> "autonomous"])
    IN  Return(w2, frame, result)

AutonomousAnswerRaw(w, response) ==
    LET answer == response.message.content
    IN  Return(PushStep(w, [type |-> "response", content |-> answer,
                            engine |-> "autonomous"]),
               frame, answer)
\* AutonomousEngine.execute, lines 397-402: the turn called no tool
AutonomousAnswer(w, response) ==
    LET answer == ExtractText(response.message.content)
    IN  Return(PushStep(w, [type |-> "response", content |-> answer,
                            engine |-> "autonomous"]),
               frame, answer)

\* AutonomousEngine.execute, lines 346-402: one model turn
AutonomousModel ==
    /\ pc = "model" /\ engine = "autonomous"
    /\ \E r \in AutonomousResponses :
         LET response == Receive(r)
             us == AutonomousUsage(World, response)
             w1 == PushMessage(us.w, response.message)
             w2 == IF response.message.content # <<>>
                   THEN PushStep(w1, [type |-> "thought",
                                      content |-> response.message.content,
                                      engine |-> "autonomous"])
                   ELSE w1
             finishCall == Find(response.toolCalls, FinishToolName)
             regularCalls == SelectSeq(response.toolCalls,
                                       LAMBDA tc : tc.name # FinishToolName)
         IN  /\ Received(r)
             /\ IF us.raised # None THEN Throw(us.w, frame, us.raised[1])
                ELSE IF response.toolCalls # <<>>
                THEN IF finishCall # None
                     THEN AutonomousFinish(w2, response, finishCall[1])
                     ELSE AwaitTools(w2, "loop", frame, regularCalls)
                ELSE AutonomousAnswer(w2, response)

\* AutonomousEngine.execute, lines 393-404: the non-finish calls, one callTool at a time
AutonomousTool ==
    /\ pc = "tool" /\ engine = "autonomous"
    /\ \E body \in {"returns", "throws"} :
         LET tc == Head(pending)
             ct == CallTool(World, tc.name, tc.arguments, tc.id, body)
         IN  IF ct.raised # None THEN Throw(ct.w, frame, ct.raised[1])
             ELSE IF Tail(pending) # <<>>
             THEN AwaitTools(ct.w, "loop", frame, Tail(pending))
             ELSE AutonomousLoop(ct.w, [frame EXCEPT !.steps = @ + 1])
    /\ UNCHANGED << setup, nextId, responses >>

\* ---------------------------------------------------------- Chain-of-Thought

CotResponses ==
    { Resp(ThinkAns, <<>>, Some(Light)),
      Resp(Ans, <<>>, None),
      Resp(ThinkOnly, <<Call("search")>>, Some(Light)),
      Resp(Empty, <<Call("calc")>>, Some(Heavy)),
      Resp(Empty, <<Call("ghost")>>, Some(Light)) }

\* ChainOfThoughtEngine.execute: the loop test and what follows the loop
CotLoop(w, fr) ==
    IF fr.toolSteps < config.maxToolSteps
    THEN AwaitModel(w, "loop", fr)
    ELSE Throw(w, fr, <<"Error", "Max tool steps reached">>)

ThinkingInstruction == <<"thinking instruction">>

\* ChainOfThoughtEngine._injectInstruction: a copy of the messages whose first
\* system message has the instruction appended, or that begins with the
\* instruction as a system message if there is none; the messages themselves
\* without thinking tags
InjectInstruction(messages, useThinkingTags) ==
    LET systems == {i \in 1..Len(messages) : messages[i].role = "system"}
        systemIdx == IF systems = {} THEN 0
                     ELSE CHOOSE i \in systems : \A j \in systems : i <= j
    IN  IF ~useThinkingTags THEN messages
        ELSE IF systemIdx > 0
        THEN [messages EXCEPT ![systemIdx].content = @ \o ThinkingInstruction]
        ELSE << [role |-> "system", content |-> ThinkingInstruction,
                 toolCallId |-> None, toolCalls |-> <<>>] >> \o messages

\* ChainOfThoughtEngine.execute, lines 70-91 (the first pass) and 98-105 (the loop);
\* frame.sent is the messages the call was made with
CotModel ==
    /\ pc = "model" /\ engine = "cot"
    /\ \E r \in CotResponses :
         LET response == Receive(r)
             cm == CallModel(World, response)
             fr == [frame EXCEPT !.sent =
                       IF phase = "first"
                       THEN InjectInstruction(state.messages, config.useThinkingTags)
                       ELSE state.messages]
             w1 == PushMessage(cm.w, response.message)
             thinking == ExtractThinking(response.message.content)
             w2 == IF phase = "first" /\ config.useThinkingTags
                      /\ thinking # None /\ thinking[1] # <<>>
                   THEN PushStep(w1, [type |-> "thought", content |-> thinking[1],
                                      engine |-> "cot"])
                   ELSE w1
             answer == ExtractText(response.message.content)
         IN  /\ Received(r)
             /\ IF cm.raised # None THEN Throw(cm.w, fr, cm.raised[1])
                ELSE IF response.toolCalls = <<>>
                THEN Return(PushStep(w2, [type |-> "response", content |-> answer,
                                          engine |-> "cot"]),
                            fr, answer)
                ELSE AwaitTools(w2, phase, fr, response.toolCalls)

\* ChainOfThoughtEngine.execute, lines 94-95 and 107-108: executeToolCalls
CotTool ==
    /\ pc = "tool" /\ engine = "cot"
    /\ \E body \in {"returns", "throws"} :
         LET tc == Head(pending)
             ct == CallTool(World, tc.name, tc.arguments, tc.id, body)
         IN  IF ct.raised # None THEN Throw(ct.w, frame, ct.raised[1])
             ELSE IF Tail(pending) # <<>>
             THEN AwaitTools(ct.w, phase, frame, Tail(pending))
             ELSE CotLoop(ct.w, [frame EXCEPT !.toolSteps =
                                    IF phase = "first" THEN 1 ELSE @ + 1])
    /\ UNCHANGED << setup, nextId, responses >>

\* ------------------------------------------------------------------- Planner

\* JSON.parse of a text: the value of the texts that are JSON, absent otherwise.
\* The planning texts: arrays of {id, description, dependsOn}, and a JSON object
\* that is no array (whose .map throws inside _makePlan's try).
\* a property the JSON text does not have, as a template string prints it
Undefined == <<"undefined">>
\* the JSON string "t1" where an array of ids is expected
StringT1 == <<"\"t1\"">>
\* typeof v.filter === 'function', for the values dependsOn takes
HasFilter(v) == v # StringT1
RawTask(id, deps) == [id |-> Some(id), description |-> <<"do", id>>, dependsOn |-> deps]
JsonParse(raw) ==
    CASE raw = <<"[t1]">> ->
            Some(<<RawTask("t1", None)>>)
      [] raw = <<"[t1,t2<-t1]">> ->
            Some(<<RawTask("t1", Some(<<>>)), RawTask("t2", Some(<<"t1">>))>>)
      [] raw = <<"[t2<-t1,t1]">> ->
            Some(<<RawTask("t2", Some(<<"t1">>)), RawTask("t1", Some(<<>>))>>)
      [] raw = <<"[t1,t2]">> ->
            Some(<<RawTask("t1", None), RawTask("t2", None)>>)
      [] raw = <<"[t1,t2<-t1,t3<-t2]">> ->
            Some(<<RawTask("t1", None), RawTask("t2", Some(<<"t1">>)),
                   RawTask("t3", Some(<<"t2">>))>>)
      [] raw = <<"[{}]">> ->
            Some(<<[id |-> None, description |-> Undefined, dependsOn |-> None]>>)
      [] raw = <<"[t1,t2<-\"t1\"]">> ->
            Some(<<RawTask("t1", None),
                   [id |-> Some("t2"), description |-> <<"do", "t2">>,
                    dependsOn |-> Some(StringT1)]>>)
      [] raw = <<"{}">> -> Some("object")
      [] OTHER -> None

\* utils.parseJSON: the content of the first fenced block if there is one, else the
\* text, trimmed and given to JSON.parse; absent when JSON.parse throws
ParseJSON(text) ==
    LET i == FirstIndex(text, "~~~", 1)
        j == IF i = 0 THEN 0 ELSE FirstIndex(text, "~~~", i + 1)
        raw == IF i = 0 \/ j = 0 THEN text ELSE SubSeq(text, i + 1, j - 1)
    IN  JsonParse(Trim(raw))

PlanResponses ==
    { Resp(<<"[t1]">>, <<>>, Some(Light)),
      Resp(<<"~~~", "[t1,t2<-t1]", " ", "~~~">>, <<>>, Some(Light)),
      Resp(<<"[t2<-t1,t1]">>, <<>>, None),
      Resp(<<"[t1,t2]">>, <<>>, Some(Light)),
      Resp(<<"[t1,t2<-t1,t3<-t2]">>, <<>>, Some(Light)),
      Resp(<<"{}">>, <<>>, Some(Light)),
      Resp(<<"[{}]">>, <<>>, Some(Light)),
      Resp(<<"[t1,t2<-\"t1\"]">>, <<>>, Some(Light)),
      Resp(<<"here", "is", "my", "plan">>, <<>>, Some(Heavy)) }

TaskResponses ==
    { Resp(ThinkAns, <<>>, Some(Light)),
      Resp(Empty, <<Call("search")>>, None) }

SynthResponses ==
    { Resp(ThinkAns, <<>>, Some(Light)),
      Resp(Other, <<>>, Some(Heavy)) }

\* PlannerEngine._makePlan, lines 157-177: the plan made of the planning response
MakePlan(content) ==
    LET parsed == ParseJSON(content)
    IN  IF parsed = None \/ parsed[1] = "object"
        THEN << [id |-> "t1", description |-> Input, dependsOn |-> <<>>,
                 status |-> "pending", result |-> None] >>
        ELSE [k \in 1..Len(parsed[1]) |->
                [id |-> Coalesce(parsed[1][k].id, "uuid"),
                 description |-> parsed[1][k].description,
                 dependsOn |-> Coalesce(parsed[1][k].dependsOn, <<>>),
                 status |-> "pending", result |-> None]]

UnmetDepsNone(task, taskResults) == {}
\* PlannerEngine.execute, line 107: the dependencies with no entry in taskResults
UnmetDeps(task, taskResults) ==
    {task.dependsOn[d] : d \in {d \in 1..Len(task.dependsOn) :
                                  task.dependsOn[d] \notin DOMAIN taskResults}}

\* the plan array is one object, held by the engine and by the pushed plan step:
\* a write to a task is seen through both
SetTask(w, fr, k, status, result) ==
    LET plan == [fr.plan EXCEPT ![k].status = status, ![k].result = result]
    IN  [w |-> [w EXCEPT !.state.steps[fr.planStep].tasks = plan,
                         !.trace = Append(@, <<"task", fr.plan[k].id, status>>)],
         fr |-> [fr EXCEPT !.plan = plan]]

\* what (task.dependsOn ?? []).filter(...) throws when dependsOn is a string
FilterError == <<"TypeError", "filter is not a function">>

RECURSIVE SweepRevisit(_, _)
SweepRevisit(fr, k) ==
    LET ready == {j \in 1..Len(fr.plan) : /\ fr.plan[j].status = "pending"
                                          /\ UnmetDeps(fr.plan[j], fr.taskResults) = {}}
    IN  IF k > Len(fr.plan)
        THEN IF ready = {} THEN [kind |-> "end", index |-> k]
             ELSE [kind |-> "run", index |-> CHOOSE j \in ready : \A i \in ready : j <= i]
        ELSE IF fr.executionSteps >= config.maxExecutionSteps THEN [kind |-> "throw", index |-> k]
        ELSE IF ~HasFilter(fr.plan[k].dependsOn) THEN [kind |-> "typeerror", index |-> k]
        ELSE IF UnmetDeps(fr.plan[k], fr.taskResults) # {} THEN SweepRevisit(fr, k + 1)
        ELSE [kind |-> "run", index |-> k]

RECURSIVE Sweep(_, _)
\* PlannerEngine.execute, lines 101-111: the for loop from the k-th task on, up to the
\* task it executes ("run"), the throw of line 103, or its end ("end")
Sweep(fr, k) ==
    IF k > Len(fr.plan) THEN [kind |-> "end", index |-> k]
    ELSE IF fr.executionSteps >= config.maxExecutionSteps THEN [kind |-> "throw", index |-> k]
    ELSE IF ~HasFilter(fr.plan[k].dependsOn) THEN [kind |-> "typeerror", index |-> k]
    ELSE IF UnmetDeps(fr.plan[k], fr.taskResults) # {} THEN Sweep(fr, k + 1)
    ELSE [kind |-> "run", index |-> k]

\* PlannerEngine._synthesize, lines 237-240: the tasks whose status is done, each
\* with its entry of the results
SummaryContext(plan, results) ==
    LET done == SelectSeq(plan, LAMBDA t : t.status = "done")
    IN  [k \in 1..Len(done) |->
            [id |-> done[k].id, description |-> done[k].description,
             result |-> IF done[k].id \in DOMAIN results THEN results[done[k].id]
                        ELSE <<"no result">>]]

\* PlannerEngine.execute, lines 101-120 and 140: the loop goes on from the k-th task
PlannerContinue(w, fr, k) ==
    LET sw == Sweep(fr, k)
        st == SetTask(w, fr, sw.index, "in_progress", fr.plan[sw.index].result)
        task == fr.plan[sw.index]
        w1 == PushStep(st.w, [type |-> "thought",
                              content |-> <<"Executing task", task.id>> \o task.description,
                              engine |-> "planner"])
    IN  CASE sw.kind = "end" ->
                AwaitModel(w, "synth",
                           [fr EXCEPT !.synthInput = Some(SummaryContext(fr.plan, fr.taskResults))])
          [] sw.kind = "throw" -> Throw(w, fr, <<"Error", "Max execution steps reached">>)
          [] sw.kind = "typeerror" -> Throw(w, fr, FilterError)
          [] OTHER ->
                AwaitModel(w1, "task",
                    [st.fr EXCEPT !.index = sw.index, !.steps = 0,
                        !.taskMessages = << [role |-> "system", content |-> <<"executor prompt">>,
                                             toolCallId |-> None, toolCalls |-> <<>>],
                                            [role |-> "user",
                                             content |-> Input \o task.description,
                                             toolCallId |-> None, toolCalls |-> <<>>] >>])

\* PlannerEngine.execute, lines 88-95: the planning response
PlannerPlan ==
    /\ pc = "model" /\ engine = "planner" /\ phase = "plan"
    /\ \E r \in PlanResponses :
         LET response == Receive(r)
             cm == CallModel(World, response)
             plan == MakePlan(response.message.content)
             w1 == PushStep(cm.w, [type |-> "plan", tasks |-> plan, engine |-> "planner"])
             fr == [frame EXCEPT !.plan = plan, !.planStep = Len(w1.state.steps)]
         IN  /\ Received(r)
             /\ IF cm.raised # None THEN Throw(cm.w, frame, cm.raised[1])
                ELSE PlannerContinue(w1, fr, 1)

PlannerTaskFailedSwallow(w, fr, err) ==
    LET st == SetTask(w, fr, fr.index, "failed", fr.plan[fr.index].result)
    IN  PlannerContinue(st.w, st.fr, fr.index + 1)
\* PlannerEngine.execute, lines 128-136: the catch of a failed task
PlannerTaskFailed(w, fr, err) ==
    LET st == SetTask(w, fr, fr.index, "failed", fr.plan[fr.index].result)
    IN  IF ~config.allowReplan
        THEN Throw(st.w, st.fr, <<"Error", "Task failed", err>>)
        ELSE PlannerContinue(st.w, st.fr, fr.index + 1)

\* PlannerEngine.execute, lines 123-127: the task returned result
PlannerTaskDone(w, fr, result) ==
    LET st == SetTask(w, fr, fr.index, "done", Some(result))
        fr1 == [st.fr EXCEPT !.taskResults = [id \in DOMAIN @ \cup {fr.plan[fr.index].id} |->
                                                 IF id = fr.plan[fr.index].id THEN result
                                                 ELSE @[id]],
                             !.executionSteps = @ + 1]
    IN  PlannerContinue(st.w, fr1, fr.index + 1)

\* PlannerEngine._executeTask, lines 207-212: one model turn of the task
PlannerTaskModel ==
    /\ pc = "model" /\ engine = "planner" /\ phase = "task"
    /\ \E r \in TaskResponses :
         LET response == Receive(r)
             cm == CallModel(World, response)
             fr == [frame EXCEPT !.taskMessages = Append(@, response.message)]
         IN  /\ Received(r)
             /\ IF cm.raised # None THEN PlannerTaskFailed(cm.w, frame, cm.raised[1])
                ELSE IF response.toolCalls = <<>>
                THEN PlannerTaskDone(cm.w, fr, ExtractText(response.message.content))
                ELSE AwaitTools(cm.w, "task", fr, response.toolCalls)

\* PlannerEngine._executeTask, lines 215-227: the tool calls of the turn, one callTool
\* at a time, each result appended to the task's own messages
PlannerTool ==
    /\ pc = "tool" /\ engine = "planner"
    /\ \E body \in {"returns", "throws"} :
         LET tc == Head(pending)
             ct == CallTool(World, tc.name, tc.arguments, tc.id, body)
             fr == [frame EXCEPT !.taskMessages =
                       Append(@, [role |-> "tool",
                                  content |-> StringifyResult(Coalesce(ct.result, Null)),
                                  toolCallId |-> Some(tc.id), toolCalls |-> <<>>])]
             fr1 == [fr EXCEPT !.steps = @ + 1]
         IN  IF ct.raised # None THEN PlannerTaskFailed(ct.w, frame, ct.raised[1])
             ELSE IF Tail(pending) # <<>>
             THEN AwaitTools(ct.w, "task", fr, Tail(pending))
             ELSE IF fr1.steps < MaxTaskSteps
             THEN AwaitModel(ct.w, "task", fr1)
             ELSE PlannerTaskFailed(ct.w, fr1, <<"Error", "Task exceeded max steps">>)
    /\ UNCHANGED << setup, nextId, responses >>

\* PlannerEngine._synthesize and execute, lines 140-142: the synthesis response
PlannerSynth ==
    /\ pc = "model" /\ engine = "planner" /\ phase = "synth"
    /\ \E r \in SynthResponses :
         LET response == Receive(r)
             cm == CallModel(World, response)
             summary == response.message.content
         IN  /\ Received(r)
             /\ IF cm.raised # None THEN Throw(cm.w, frame, cm.raised[1])
                ELSE Return(PushStep(cm.w, [type |-> "response", content |-> summary,
                                            engine |-> "planner"]),
                            frame, summary)

\* ------------------------------------------------------------------- Reflect

\* a critique as the model writes it
Critique(score, needsRevision) ==
    [score |-> score, issues |-> <<"issue">>, suggestion |-> <<"suggestion">>,
     needs_revision |-> needsRevision]

\* JSON.parse of the critique texts
CritiqueParse(raw) ==
    CASE raw = <<"{score:5,needs_revision:true}">> -> Some(Critique(5, TRUE))
      [] raw = <<"{score:8,needs_revision:true}">> -> Some(Critique(8, TRUE))
      [] raw = <<"{score:9,needs_revision:true}">> -> Some(Critique(9, TRUE))
      [] raw = <<"{score:5,needs_revision:false}">> -> Some(Critique(5, FALSE))
      [] raw = <<"{score:9,needs_revision:false}">> -> Some(Critique(9, FALSE))
      [] raw = <<"{}">> ->
            Some([score |-> Undefined, issues |-> Undefined, suggestion |-> Undefined,
                  needs_revision |-> Undefined])
      [] OTHER -> None

\* content.replace(/~~~(?:json)?\s*([\s\S]*?)~~~/, '$1'): the first fenced block is
\* replaced by what it holds
Unfence(text) ==
    LET i == FirstIndex(text, "~~~", 1)
        j == IF i = 0 THEN 0 ELSE FirstIndex(text, "~~~", i + 1)
    IN  IF i = 0 \/ j = 0 THEN text
        ELSE SubSeq(text, 1, i - 1) \o Trim(SubSeq(text, i + 1, j - 1))
             \o SubSeq(text, j + 1, Len(text))

\* ReflectEngine._critique, lines 159-165: the critique made of the response
ParseCritique(content) ==
    LET parsed == CritiqueParse(Trim(Unfence(content)))
    IN  IF parsed = None
        THEN [score |-> FallbackScore, issues |-> <<>>, suggestion |-> <<>>,
              needs_revision |-> FALSE]
        ELSE parsed[1]

GenerateResponses ==
    { Resp(ThinkAns, <<>>, Some(Light)),
      Resp(Empty, <<Call("search")>>, Some(Light)) }

CritiqueResponses ==
    { Resp(<<"{score:5,needs_revision:true}">>, <<>>, Some(Light)),
      Resp(<<"~~~", "{score:8,needs_revision:true}", "~~~">>, <<>>, Some(Light)),
      Resp(<<"{score:9,needs_revision:true}">>, <<>>, None),
      Resp(<<"{score:5,needs_revision:false}">>, <<>>, Some(Light)),
      Resp(<<"{score:9,needs_revision:false}">>, <<>>, Some(Heavy)),
      Resp(<<"looks", "good">>, <<>>, Some(Light)),
      Resp(<<"{}">>, <<>>, Some(Light)) }

ReviseResponses ==
    { Resp(Other, <<>>, Some(Light)),
      Resp(Empty, <<Call("calc")>>, Some(Light)) }

ReviseFinalResponses ==
    { Resp(ThinkAns, <<>>, Some(Light)) }

ReviseAlways(critique, acceptanceThreshold) == TRUE
\* ReflectEngine.execute, line 98, negated: the loop goes on to the revision
NeedsRevise(critique, acceptanceThreshold) ==
    ~(~critique.needs_revision \/ critique.score >= acceptanceThreshold)

ReflectRespondNoStep(w, fr) == Return(w, fr, fr.answer)
\* ReflectEngine.execute, lines 112-118: the response step and the return
ReflectRespond(w, fr) ==
    Return(PushStep(w, [type |-> "response", content |-> fr.answer, engine |-> "reflect"]),
           fr, fr.answer)

ReflectLoopOneMore(w, fr) ==
    IF fr.i <= config.maxReflections
    THEN AwaitModel(w, "critique", fr)
    ELSE ReflectRespond(w, fr)
\* ReflectEngine.execute, line 87: the loop test and what follows the loop
ReflectLoop(w, fr) ==
    IF fr.i < config.maxReflections
    THEN AwaitModel(w, "critique", fr)
    ELSE ReflectRespond(w, fr)

\* ReflectEngine._generateAnswer, lines 130-135, and execute, line 84
ReflectGenerate ==
    /\ pc = "model" /\ engine = "reflect" /\ phase = "generate"
    /\ \E r \in GenerateResponses :
         LET response == Receive(r)
             cm == CallModel(World, response)
             w1 == PushMessage(cm.w, response.message)
             answer == ExtractText(response.message.content)
             w2 == PushStep(w1, [type |-> "thought",
                                 content |-> <<"Initial answer generated.">>,
                                 engine |-> "reflect"])
         IN  /\ Received(r)
             /\ IF cm.raised # None THEN Throw(cm.w, frame, cm.raised[1])
                ELSE IF response.toolCalls = <<>>
                THEN ReflectLoop(w2, [frame EXCEPT !.answer = answer, !.i = 0])
                ELSE AwaitTools(w1, "generate", frame, response.toolCalls)

\* what critique.issues.join('; ') throws when the critique has no issues
JoinError == <<"TypeError", "Cannot read properties of undefined (reading 'join')">>

\* ReflectEngine.execute, lines 88-109: the critique, the reflection step, the test
ReflectCritique ==
    /\ pc = "model" /\ engine = "reflect" /\ phase = "critique"
    /\ \E r \in CritiqueResponses :
         LET response == Receive(r)
             cm == CallModel(World, response)
             critique == ParseCritique(response.message.content)
             w1 == PushStep(cm.w, [type |-> "reflection",
                                   assessment |-> <<"Score", critique.score,
                                                    critique.issues, critique.suggestion>>,
                                   needsRevision |-> critique.needs_revision,
                                   engine |-> "reflect"])
             w2 == PushStep(w1, [type |-> "thought",
                                 content |-> <<"Revising answer", frame.i + 1,
                                               config.maxReflections>>,
                                 engine |-> "reflect"])
             fr == [frame EXCEPT !.critique = Some(critique)]
         IN  /\ Received(r)
             /\ IF cm.raised # None THEN Throw(cm.w, frame, cm.raised[1])
                ELSE IF critique.issues = Undefined THEN Throw(cm.w, frame, JoinError)
                ELSE IF NeedsRevise(critique, config.acceptanceThreshold)
                THEN AwaitModel(w2, "revise", fr)
                ELSE ReflectRespond(w1, fr)

\* ReflectEngine._revise, lines 194-205: the revision response
ReflectRevise ==
    /\ pc = "model" /\ engine = "reflect" /\ phase = "revise"
    /\ \E r \in ReviseResponses :
         LET response == Receive(r)
             cm == CallModel(World, response)
             w1 == PushMessage(cm.w, response.message)
             answer == ExtractText(response.message.content)
         IN  /\ Received(r)
             /\ IF cm.raised # None THEN Throw(cm.w, frame, cm.raised[1])
                ELSE IF response.toolCalls # <<>>
                THEN AwaitTools(w1, "revise", frame, response.toolCalls)
                ELSE ReflectLoop(cm.w, [frame EXCEPT !.answer = answer, !.i = @ + 1])

\* ReflectEngine._revise, lines 201-202: the pass after the revision's tool calls
ReflectReviseFinal ==
    /\ pc = "model" /\ engine = "reflect" /\ phase = "revise_final"
    /\ \E r \in ReviseFinalResponses :
         LET final == Receive(r)
             cm == CallModel(World, final)
             answer == ExtractText(final.message.content)
         IN  /\ Received(r)
             /\ IF cm.raised # None THEN Throw(cm.w, frame, cm.raised[1])
                ELSE ReflectLoop(cm.w, [frame EXCEPT !.answer = answer, !.i = @ + 1])

\* executeToolCalls of _generateAnswer (lines 137-141) and of _revise (line 199)
ReflectTool ==
    /\ pc = "tool" /\ engine = "reflect"
    /\ \E body \in {"returns", "throws"} :
         LET tc == Head(pending)
             ct == CallTool(World, tc.name, tc.arguments, tc.id, body)
             fr == [frame EXCEPT !.steps = @ + 1]
         IN  IF ct.raised # None THEN Throw(ct.w, frame, ct.raised[1])
             ELSE IF Tail(pending) # <<>>
             THEN AwaitTools(ct.w, phase, frame, Tail(pending))
             ELSE IF phase = "revise"
             THEN AwaitModel(ct.w, "revise_final", frame)
             ELSE IF fr.steps < config.maxAnswerSteps
             THEN AwaitModel(ct.w, "generate", fr)
             ELSE Throw(ct.w, fr, <<"Error", "Max answer steps reached">>)
    /\ UNCHANGED << setup, nextId, responses >>

Next ==
    \/ RunStart
    \/ RunAgain
    \/ PassthroughModel
    \/ ReactModel
    \/ ReactTool
    \/ AutonomousModel
    \/ AutonomousTool
    \/ CotModel
    \/ CotTool
    \/ PlannerPlan
    \/ PlannerTaskModel
    \/ PlannerTool
    \/ PlannerSynth
    \/ ReflectGenerate
    \/ ReflectCritique
    \/ ReflectRevise
    \/ ReflectReviseFinal
    \/ ReflectTool

Spec == Init /\ [][Next]_vars

\* -------------------------------------------------------------------- claims

StepsOfType(t) == SelectSeq(state.steps, LAMBDA st : st.type = t)
Finished == pc \in {"returned", "thrown"}
LastStep == state.steps[Len(state.steps)]
LastMessage == state.messages[Len(state.messages)]

\* C1 as stated: every run, once over, has pushed exactly one response step, and that
\* step is the last element of state.steps.
C1_EveryRunOneResponse ==
    Finished => /\ Len(StepsOfType("response")) = 1
                /\ LastStep.type = "response"

\* C1 as amended: at every point of a run state.steps holds at most one response step,
\* and if it holds one it is its last element; a run that returned has pushed exactly
\* one, a run that has not returned (still going, or thrown) has pushed none.
C1_ReturnedRunOneResponse ==
    /\ Len(StepsOfType("response")) <= 1
    /\ \A k \in 1..Len(state.steps) :
          state.steps[k].type = "response" => k = Len(state.steps)
    /\ (pc = "returned") <=> (Len(StepsOfType("response")) = 1)

\* a run that returned after thoughts and tool results
C1_Witness ==
    /\ pc = "returned"
    /\ Len(state.steps) >= 3
    /\ LastStep.type = "response"
    /\ Len(StepsOfType("tool_result")) >= 1

IsToolTurn(response) == response.toolCalls # <<>>

\* the responses of the run are tool-call turns followed by one turn without tool calls
ToolTurnsThenFinal ==
    /\ responses # <<>>
    /\ ~IsToolTurn(responses[Len(responses)])
    /\ \A k \in 1..(Len(responses) - 1) : IsToolTurn(responses[k])

\* C2 as stated: a ReAct run over N tool-call turns and a final turn, N < maxSteps,
\* returns the final content, and state.steps is N thought/tool_result pairs followed
\* by one response step.
C2_PairsPerTurn ==
    (engine = "react" /\ Finished /\ ToolTurnsThenFinal
        /\ Len(responses) - 1 < config.maxSteps) =>
        LET n == Len(responses) - 1
        IN  /\ pc = "returned"
            /\ output = Some(responses[n + 1].message.content)
            /\ Len(state.steps) = 2 * n + 1
            /\ \A k \in 1..n : /\ state.steps[2 * k - 1].type = "thought"
                               /\ state.steps[2 * k].type = "tool_result"
            /\ state.steps[2 * n + 1].type = "response"

\* the steps a tool-call turn leaves when each of its calls succeeds: a thought step if
\* the turn has content, and one tool_result step for each call of the turn
TurnSteps(response) ==
    (IF response.message.content # <<>>
     THEN << [type |-> "thought", content |-> response.message.content,
              engine |-> "react"] >>
     ELSE <<>>)
    \o [k \in 1..Len(response.toolCalls) |->
          [type |-> "tool_result", toolName |-> response.toolCalls[k].name,
           callId |-> response.toolCalls[k].id, result |-> ToolResult,
           error |-> None, engine |-> "runtime"]]

RECURSIVE TurnsSteps(_, _)
TurnsSteps(rs, n) ==
    IF n = 0 THEN <<>> ELSE TurnsSteps(rs, n - 1) \o TurnSteps(rs[n])

\* the errors that end a ReAct run early: the token budget, or an error out of callTool
EarlyError(e) ==
    \/ e = <<"Error", "Token budget exceeded">>
    \/ e = <<"Error", "Unknown tool">>
    \/ e = <<"Error", "Tool not allowed by policy">>
    \/ e = ToolError
    \/ e[1] = "MiddlewareError"

\* C2 as amended: a ReAct run over N tool-call turns and a final turn, N < maxSteps,
\* in which no callTool raises and the token budget is not reached, returns the
\* content of the final response; state.steps then holds, for each tool-call turn in
\* order, a thought step if the turn has content followed by one tool_result step for
\* each tool call of the turn, and last one response step.  A ReAct run throws only
\* for the budget, for an error out of callTool, or after maxSteps tool-call turns.
C2_StepsPerTurn ==
    engine = "react" =>
        /\ pc = "returned" =>
              LET n == Len(responses) - 1
              IN  /\ ToolTurnsThenFinal
                  /\ n < config.maxSteps
                  /\ output = Some(responses[n + 1].message.content)
                  /\ state.steps = TurnsSteps(responses, n)
                        \o << [type |-> "response",
                               content |-> responses[n + 1].message.content,
                               engine |-> "react"] >>
        /\ pc = "thrown" =>
              \/ EarlyError(error[1])
              \/ /\ error[1] = <<"Error", "Max steps reached">>
                 /\ Len(responses) = config.maxSteps
                 /\ \A k \in 1..Len(responses) : IsToolTurn(responses[k])

\* a ReAct run that returned after a tool-call turn with content and one without
C2_Witness ==
    /\ engine = "react" /\ pc = "returned"
    /\ Len(responses) = 3
    /\ responses[1].message.content # <<>>
    /\ responses[2].message.content = <<>>

Executions == SelectSeq(trace, LAMBDA e : e[1] = "execute")
ToolMessages ==
    SelectSeq(state.messages, LAMBDA m : m.role = "tool" /\ m.content # StringifyDone)

\* C3: each invocation of a tool body, whether it returned or threw, is followed in
\* that callTool by exactly one tool_result step (with error iff the body threw), one
\* (call, result) pair and one tool message with toolCallId = callId, in that order,
\* and then by the tool:after event and the tool:after middleware, before callTool
\* returns or throws; and nothing else writes such records.
C3_BookkeepingOncePerBody ==
    /\ Len(StepsOfType("tool_result")) = Len(Executions)
    /\ Len(state.toolCalls) = Len(Executions)
    /\ Len(ToolMessages) = Len(Executions)
    /\ \A k \in 1..Len(Executions) :
          LET name == Executions[k][2]
              callId == Executions[k][3]
              threw == Executions[k][4] = "throws"
          IN  /\ StepsOfType("tool_result")[k].callId = callId
              /\ StepsOfType("tool_result")[k].toolName = name
              /\ (StepsOfType("tool_result")[k].error # None) <=> threw
              /\ state.toolCalls[k].call.id = callId
              /\ state.toolCalls[k].call.name = name
              /\ ToolMessages[k].toolCallId = Some(callId)
    /\ \A p \in 1..Len(trace) :
          trace[p][1] = "execute" =>
             LET callId == trace[p][3]
             IN  /\ Len(trace) >= p + 5
                 /\ trace[p + 1] = <<"steps.push", callId>>
                 /\ trace[p + 2] = <<"toolCalls.push", callId>>
                 /\ trace[p + 3] = <<"messages.push", callId>>
                 /\ trace[p + 4] = <<"emit", "tool:after", callId>>
                 /\ \E q \in (p + 5)..Len(trace) :
                       /\ trace[q][1] \in {"return", "throw"}
                       /\ \A m \in (p + 5)..(q - 1) :
                             /\ trace[m][1] = "middleware"
                             /\ trace[m][2] = "tool:after"
                             /\ trace[m][4] = callId

\* a tool body threw and one returned, and the tool:after middleware ran for both
C3_Witness ==
    /\ \E k \in 1..Len(Executions) : Executions[k][4] = "throws"
    /\ \E k \in 1..Len(Executions) : Executions[k][4] = "returns"
    /\ \E p \in 1..Len(trace) : trace[p][1] = "middleware" /\ trace[p][2] = "tool:after"

\* C4 as stated: when a tool body throws, the error callTool raises to the engine,
\* after the bookkeeping, the tool:after event and the tool:after middleware, is that
\* same error of the body.
C4_BodyErrorReraised ==
    \A p \in 1..Len(trace) :
        (trace[p][1] = "execute" /\ trace[p][4] = "throws") =>
            \E q \in (p + 1)..Len(trace) :
                /\ trace[q][1] = "throw"
                /\ trace[q][3] = trace[p][3]
                /\ trace[q][2] = ToolError

\* the name is not registered, or a list is set and the name is not in it
Blocked(name) ==
    \/ name \notin Registered
    \/ policy.allowedTools # None /\ name \notin policy.allowedTools[1]

BlockedErrors ==
    { Some(<<"Error", "Unknown tool">>), Some(<<"Error", "Tool not allowed by policy">>) }

\* C5: wherever an engine calls tools, callTool for a name that is not registered, or
\* that a set allow-list leaves out, throws and leaves ctx.state and the record of
\* events, middleware and tool bodies as they were; for any other name (every
\* registered name when no list is set) it goes on to tool:before.  No tool body of a
\* blocked name is ever executed.
C5_BlockedCallTouchesNothing ==
    /\ pc = "tool" =>
          \A name \in ToolNames, body \in {"returns", "throws"} :
              LET ct == CallTool(World, name, [q |-> <<"x">>], nextId + 1, body)
              IN  IF Blocked(name)
                  THEN /\ ct.w = World
                       /\ ct.raised \in BlockedErrors
                       /\ ct.result = None
                  ELSE /\ Len(ct.w.trace) > Len(trace)
                       /\ ct.w.trace[Len(trace) + 1] = <<"emit", "tool:before", nextId + 1>>
    /\ \A p \in 1..Len(trace) :
          trace[p][1] = "execute" => ~Blocked(trace[p][2])
    /\ (pc = "thrown" /\ error \in BlockedErrors /\ trace # <<>>) =>
          trace[Len(trace)][1] \in {"emit", "return"}

\* a run ended by a call of a registered tool the allow-list leaves out, after a call
\* of an allowed tool went through
C5_Witness ==
    /\ pc = "thrown"
    /\ error = Some(<<"Error", "Tool not allowed by policy">>)
    /\ Len(Executions) >= 1

\* C6 as stated: each tool message of state.messages has the id of a toolCalls entry
\* of an assistant message earlier in state.messages.
C6_ToolMessageAnswersEarlierCall ==
    \A k \in 1..Len(state.messages) :
        state.messages[k].role = "tool" =>
            \E j \in 1..(k - 1) :
                /\ state.messages[j].role = "assistant"
                /\ \E c \in 1..Len(state.messages[j].toolCalls) :
                      Some(state.messages[j].toolCalls[c].id) = state.messages[k].toolCallId

\* C7 as stated: no step of a run shortens state.steps or changes an element that
\* is already in it.
C7_StepsAppendOnly ==
    [][runNo' = runNo =>
          /\ Len(state'.steps) >= Len(state.steps)
          /\ \A k \in 1..Len(state.steps) : state'.steps[k] = state.steps[k]]_vars

\* the tasks of the plan once the plan is made
Plan == IF engine = "planner" /\ pc # "start" THEN frame.plan ELSE <<>>

\* the id belongs to a task of the plan whose status is done
DoneTask(id) == \E j \in 1..Len(Plan) : Plan[j].id = id /\ Plan[j].status = "done"

\* C8: a task of the plan leaves pending (in_progress, its thought step, its model
\* calls) only when each id of its dependsOn belongs to a task that is done, the
\* status done having been written before the task was set in_progress.
C8_TaskBeginsAfterDependencies ==
    /\ \A k \in 1..Len(Plan) :
          Plan[k].status # "pending" =>
              \A d \in 1..Len(Plan[k].dependsOn) : DoneTask(Plan[k].dependsOn[d])
    /\ \A p \in 1..Len(trace) :
          (trace[p][1] = "task" /\ trace[p][3] = "in_progress") =>
              \A k \in 1..Len(Plan) :
                  Plan[k].id = trace[p][2] =>
                      \A d \in 1..Len(Plan[k].dependsOn) :
                          \E q \in 1..(p - 1) :
                              /\ trace[q][1] = "task"
                              /\ trace[q][2] = Plan[k].dependsOn[d]
                              /\ trace[q][3] = "done"
    /\ (engine = "planner" /\ phase = "task" /\ pc \in {"model", "tool"}) =>
          /\ Plan[frame.index].status = "in_progress"
          /\ \A d \in 1..Len(Plan[frame.index].dependsOn) :
                DoneTask(Plan[frame.index].dependsOn[d])

\* the plan [t1, t2 dependsOn t1] (and the plan that lists t2 first), t2 begun
C8_Witness ==
    /\ engine = "planner"
    /\ \E k \in 1..Len(Plan) :
          /\ Plan[k].id = "t2"
          /\ Plan[k].dependsOn = <<"t1">>
          /\ Plan[k].status \in {"in_progress", "done"}

IsRevising(step) ==
    step.type = "thought" /\ step.engine = "reflect" /\ step.content[1] = "Revising answer"

\* the critique a reflection step records calls for a revision
CallsForRevision(step) ==
    /\ step.type = "reflection"
    /\ step.needsRevision
    /\ step.assessment[2] < config.acceptanceThreshold

FinishCall(k) == Find(responses[k].toolCalls, FinishToolName)

DoneMessage(finishCall) ==
    /\ LastMessage.role = "tool"
    /\ LastMessage.content = StringifyDone
    /\ LastMessage.toolCallId = Some(finishCall.id)

\* C10 as stated: a turn of an Autonomous run that calls finish with {result: X} makes
\* the run return X, with the {done:true} tool message of the finish call appended
\* to state.messages.
C10_FinishResolves ==
    engine = "autonomous" =>
        \A k \in 1..Len(responses) :
            (FinishCall(k) # None /\ FinishCall(k)[1].arguments.result # None) =>
                /\ pc = "returned"
                /\ output = FinishCall(k)[1].arguments.result
                /\ DoneMessage(FinishCall(k)[1])

\* the response brought usage.totalTokens to policy.tokenBudget or above
ReachedBudget(response) ==
    response.usage # None /\ OverBudget(state.usage.totalTokens, policy.tokenBudget)

\* C10 as amended: a turn of an Autonomous run that calls finish with {result: X} is
\* the last turn of the run; unless its usage brings usage.totalTokens to
\* policy.tokenBudget or above (the run then throws the budget error), the run returns
\* X and the {done:true} tool message with the finish call's id is the last of
\* state.messages.  callTool is never invoked for finish.
C10_FinishResolvesWithinBudget ==
    engine = "autonomous" =>
        /\ \A k \in 1..Len(responses) :
              (FinishCall(k) # None /\ FinishCall(k)[1].arguments.result # None) =>
                  /\ k = Len(responses)
                  /\ IF ReachedBudget(responses[k])
                     THEN /\ pc = "thrown"
                          /\ error = Some(<<"Error", "Token budget exceeded">>)
                     ELSE /\ pc = "returned"
                          /\ output = FinishCall(k)[1].arguments.result
                          /\ LastStep = [type |-> "response", content |-> output[1],
                                         engine |-> "autonomous"]
                          /\ DoneMessage(FinishCall(k)[1])
        /\ \A k \in 1..Len(pending) : pending[k].name # FinishToolName
        /\ \A p \in 1..Len(trace) :
              trace[p][1] = "execute" => trace[p][2] # FinishToolName

\* finish called with a result other than the content of its message, after a tool turn
C10_Witness ==
    /\ engine = "autonomous" /\ pc = "returned"
    /\ Len(responses) >= 2
    /\ FinishCall(Len(responses)) # None
    /\ responses[Len(responses)].message.content = Ans
    /\ output = Some(Other)

\* ------------------------------------------------- the middleware pipeline alone

\* how many middleware the pipeline is given
MaxMiddlewares == 3

MwNames == <<"m1", "m2", "m3", "m4", "m5">>
MwScopes == {None, Some({"tool:before"}), Some({"tool:after", "run:before"})}
MwActs == {"next", "skip", "throw", "after"}

\* new MiddlewarePipeline(): no middleware, no run made yet.  The pipeline is in
\* middlewares; phase is the scope of the last run, trace the names it invoked in
\* order, error what it threw.
PipelineInit ==
    /\ middlewares = <<>>
    /\ pc = "pipeline"
    /\ phase = "idle"
    /\ trace = <<>>
    /\ error = None
    /\ engine = "none"
    /\ policy = [allowedTools |-> None, tokenBudget |-> 0, maxSteps |-> 0]
    /\ config = <<>>
    /\ state = EmptyState
    /\ pending = <<>>
    /\ frame = <<>>
    /\ nextId = 0
    /\ responses = <<>>
    /\ output = None
    /\ runNo = 1
    /\ memory = NoMemory
    /\ memLog = <<>>
    /\ tools = AgentTools
    /\ toolLog = <<>>

\* MiddlewarePipeline.use(middleware)
PipelineUse ==
    /\ pc = "pipeline"
    /\ Len(middlewares) < MaxMiddlewares
    /\ \E scope \in MwScopes, act \in MwActs :
          middlewares' = Append(middlewares, Mw(MwNames[Len(middlewares) + 1], scope, act))
    /\ phase' = "idle"
    /\ trace' = <<>>
    /\ error' = None
    /\ UNCHANGED << engine, policy, config, state, pc, pending, frame, nextId,
                    responses, output, runNo, memory, memLog,
                    tools, toolLog >>

\* MiddlewarePipeline.run({scope})
PipelineRun ==
    /\ pc = "pipeline"
    /\ \E scope \in Scopes :
          LET run == MiddlewareRun(middlewares, scope)
          IN  /\ phase' = scope
              /\ trace' = run.invoked
              /\ error' = run.threw
    /\ UNCHANGED << engine, policy, middlewares, config, state, pc, pending, frame,
                    nextId, responses, output, runNo, memory, memLog,
                    tools, toolLog >>

PipelineNext == PipelineUse \/ PipelineRun

PipelineSpec == PipelineInit /\ [][PipelineNext]_vars

\* the k-th registered middleware is unscoped or its scope list has the run's scope
Matches(k) == middlewares[k].scope = None \/ phase \in middlewares[k].scope[1]
InvokesContinuation(k) == middlewares[k].act \in {"next", "after"}
\* it matches, and every matching middleware registered before it invoked next()
Reached(k) ==
    /\ Matches(k)
    /\ \A j \in 1..(k - 1) : Matches(j) => InvokesContinuation(j)
ReachedIndices == {k \in 1..Len(middlewares) : Reached(k)}
Largest(S) == CHOOSE k \in S : \A j \in S : j <= k

BudgetError == Some(<<"Error", "Token budget exceeded">>)

\* C12 as stated: once a model response has been received, the run has been aborted
\* with the token-budget error exactly when state.usage.totalTokens exceeds
\* policy.tokenBudget.
C12_AbortedExactlyAboveBudget ==
    (policy.tokenBudget # 0 /\ pc \in {"model", "tool", "returned", "thrown"}) =>
        ((pc = "thrown" /\ error = BudgetError)
            <=> state.usage.totalTokens > policy.tokenBudget)

\* C13 as stated: with policy.maxSteps = k, no run receives more than k model turns.
C13_PolicyMaxStepsBoundsTurns ==
    (pc # "pipeline" /\ policy.maxSteps # 0) => Len(responses) <= policy.maxSteps

\* the response ends the loop: no tool call, or (Autonomous) a call of finish
Terminal(response) ==
    \/ response.toolCalls = <<>>
    \/ engine = "autonomous" /\ Find(response.toolCalls, FinishToolName) # None

NoneTerminal == \A k \in 1..Len(responses) : ~Terminal(responses[k])

RECURSIVE SumUsage(_, _)
\* the sum of the usage values the first n responses report
SumUsage(rs, n) ==
    IF n = 0 THEN [promptTokens |-> 0, completionTokens |-> 0, totalTokens |-> 0]
    ELSE LET rest == SumUsage(rs, n - 1)
         IN  IF rs[n].usage = None THEN rest
             ELSE [promptTokens |-> rest.promptTokens + rs[n].usage[1].promptTokens,
                   completionTokens |-> rest.completionTokens + rs[n].usage[1].completionTokens,
                   totalTokens |-> rest.totalTokens + rs[n].usage[1].totalTokens]

\* C15: in every run, the first as the ones that follow it, state.usage is zero when
\* the run starts; at every point each of its three counters is the sum of what the
\* model responses received so far in that run reported, whatever call they answer
\* (planning, task, critique, revision, synthesis), even the response that brings
\* the run over budget; and no step of a run lowers a counter.
C15_UsageIsSumOfResponses ==
    /\ [](/\ state.usage = SumUsage(responses, Len(responses))
          /\ pc = "start" => (responses = <<>> /\ state.usage = EmptyUsage))
    /\ [][runNo' = runNo =>
            /\ state'.usage.promptTokens >= state.usage.promptTokens
            /\ state'.usage.completionTokens >= state.usage.completionTokens
            /\ state'.usage.totalTokens >= state.usage.totalTokens]_vars

\* a second run, of Reflect, that received a critique and a revision after its answer
C15_Witness ==
    /\ runNo = 2 /\ engine = "reflect" /\ pc = "returned"
    /\ Len(responses) >= 3
    /\ state.usage.totalTokens >= 6
    /\ state.usage.promptTokens >= 3

\* ------------------------------------------------------ the memory providers

\* how many operations are made on a memory provider
MaxOps == 3

\* defaults of the providers' constructors
BufferDefaultMaxMessages == 20
SlidingDefaultMaxTokens == 4000
SlidingDefaultMaxTurns == 50
SummarizingDefaultActiveWindowTokens == 3000
SummarizingDefaultSummaryMaxTokens == 600

\* a text of n characters: estimateTokens reads nothing of a text but its length
Chars(n) == [i \in 1..n |-> "x"]

Msg(role, content) ==
    [role |-> role, content |-> content, toolCallId |-> None, toolCalls |-> <<>>]

\* a Map: a function whose domain is the set of keys present
EmptyMap == << >>
MapHas(m, k) == k \in DOMAIN m
MapGet(m, k, dflt) == IF k \in DOMAIN m THEN m[k] ELSE dflt
MapSet(m, k, v) == [x \in (DOMAIN m) \cup {k} |-> IF x = k THEN v ELSE m[x]]
MapDelete(m, k) == [x \in (DOMAIN m) \ {k} |-> m[x]]

\* options.sessionId ?? 'default': only an absent id is replaced
SessionKey(sessionId) == IF sessionId = None THEN "default" ELSE sessionId[1]
\* if (sessionId): an absent id and the empty string are both falsy
Truthy(sessionId) == sessionId # None /\ sessionId[1] # ""

NonSystem(messages) == SelectSeq(messages, LAMBDA m : m.role # "system")
OnlySystem(messages) == SelectSeq(messages, LAMBDA m : m.role = "system")
\* array.slice(-n), n >= 0: slice(-0) is slice(0), the whole array
LastN(s, n) ==
    IF n = 0 THEN s
    ELSE IF Len(s) > n THEN SubSeq(s, Len(s) - n + 1, Len(s)) ELSE s
\* array.slice(k), k >= 0
From(s, k) == SubSeq(s, k + 1, Len(s))

\* estimateTokens(text): Math.ceil(text.length / 4)
EstimateTokens(text) == (Len(text) + 3) \div 4

\* estimateMessagesTokens(messages)
RECURSIVE EstimateMessagesTokens(_)
EstimateMessagesTokens(messages) ==
    IF messages = <<>> THEN 0
    ELSE EstimateTokens(Head(messages).content) + 4 + EstimateMessagesTokens(Tail(messages))

\* the loop of trimToTokenBudget: from the newest message of rest to the oldest,
\* stopping at the first message that does not fit
RECURSIVE TrimWalk(_, _, _, _, _)
TrimWalk(rest, i, tokens, maxTokens, result) ==
    IF i = 0 THEN result
    ELSE LET t == EstimateTokens(rest[i].content) + 4
         IN  IF tokens + t > maxTokens THEN result
             ELSE TrimWalk(rest, i - 1, tokens + t, maxTokens, <<rest[i]>> \o result)

\* trimToTokenBudget(messages, maxTokens)
TrimToTokenBudget(messages, maxTokens) ==
    LET system == OnlySystem(messages)
        rest == NonSystem(messages)
    IN  system \o TrimWalk(rest, Len(rest), EstimateMessagesTokens(system), maxTokens, <<>>)

\* ---- BufferMemory

Buffer(maxMessages, maxTokens) ==
    [type |-> "buffer", maxMessages |-> maxMessages, maxTokens |-> maxTokens,
     store |-> EmptyMap]

\* BufferMemory.read(options)
BufferRead(p, sessionId) ==
    LET messages == MapGet(p.store, SessionKey(sessionId), <<>>)
    IN  IF p.maxTokens # None /\ p.maxTokens[1] # 0
        THEN TrimToTokenBudget(messages, p.maxTokens[1])
        ELSE messages

\* BufferMemory.write(messages, options)
BufferWrite(p, messages, sessionId) ==
    [p EXCEPT !.store = MapSet(@, SessionKey(sessionId),
                               LastN(NonSystem(messages), p.maxMessages))]

\* BufferMemory.clear(sessionId)
BufferClear(p, sessionId) ==
    IF Truthy(sessionId)
    THEN [p EXCEPT !.store = MapDelete(@, sessionId[1])]
    ELSE [p EXCEPT !.store = EmptyMap]

\* ---- SlidingWindowMemory

\* groupIntoTurns: a turn ends at an assistant message that calls no tool; what
\* is left after the last such message is a turn too
RECURSIVE GroupLoop(_, _, _, _)
GroupLoop(messages, k, current, turns) ==
    IF k > Len(messages)
    THEN IF current # <<>> THEN Append(turns, current) ELSE turns
    ELSE LET msg == messages[k]
             cur == Append(current, msg)
         IN  IF msg.role = "assistant" /\ msg.toolCalls = <<>>
             THEN GroupLoop(messages, k + 1, <<>>, Append(turns, cur))
             ELSE GroupLoop(messages, k + 1, cur, turns)

GroupIntoTurns(messages) == GroupLoop(messages, 1, <<>>, <<>>)

\* turns.flatMap(t => t.messages)
RECURSIVE Flatten(_)
Flatten(turns) == IF turns = <<>> THEN <<>> ELSE Head(turns) \o Flatten(Tail(turns))

SlidingWindow(maxTokens, maxTurns) ==
    [type |-> "sliding", maxTokens |-> maxTokens, maxTurns |-> maxTurns,
     sessions |-> EmptyMap]

\* SlidingWindowMemory.read(options)
SlidingRead(p, sessionId) ==
    TrimToTokenBudget(Flatten(MapGet(p.sessions, SessionKey(sessionId), <<>>)), p.maxTokens)

\* SlidingWindowMemory.write(messages, options): the new turns are appended to
\* the session's turns, and the last maxTurns are kept
SlidingWrite(p, messages, sessionId) ==
    LET key == SessionKey(sessionId)
        existing == MapGet(p.sessions, key, <<>>)
        newTurns == GroupIntoTurns(NonSystem(messages))
    IN  [p EXCEPT !.sessions = MapSet(@, key, LastN(existing \o newTurns, p.maxTurns))]

\* SlidingWindowMemory.clear(sessionId)
SlidingClear(p, sessionId) ==
    IF Truthy(sessionId)
    THEN [p EXCEPT !.sessions = MapDelete(@, sessionId[1])]
    ELSE [p EXCEPT !.sessions = EmptyMap]

\* ---- SummarizingMemory

\* the text the summary is injected under
SummaryPrefix == <<"[Conversation summary so far]", "\n">>

\* sessions maps a session id to a SessionData object, objects holds the objects
\* by identity: write changes the object it found in the map in place.  inflight
\* are the writes suspended in _compress at model.complete.
Summarizing(activeWindowTokens, summaryMaxTokens) ==
    [type |-> "summarizing", activeWindowTokens |-> activeWindowTokens,
     summaryMaxTokens |-> summaryMaxTokens, objects |-> EmptyMap,
     sessions |-> EmptyMap, inflight |-> <<>>, created |-> 0]

\* if (session.summary): null and the empty string are both falsy
HasSummary(session) == session.summary # None /\ session.summary[1] # <<>>

\* SummarizingMemory.read(options)
SummarizingRead(p, sessionId) ==
    LET key == SessionKey(sessionId)
    IN  IF ~MapHas(p.sessions, key) THEN <<>>
        ELSE LET session == p.objects[p.sessions[key]]
             IN  (IF HasSummary(session)
                  THEN << Msg("system", SummaryPrefix \o session.summary[1]) >>
                  ELSE <<>>)
                 \o session.activeMessages

\* SummarizingMemory.write(messages, options) up to its first await: the session
\* found (or a new object) gets the non-system messages; over the budget the
\* write suspends in _compress, having taken toKeep, else it sets the map
SummarizingWrite(p, messages, sessionId, issued) ==
    LET key == SessionKey(sessionId)
        isNew == ~MapHas(p.sessions, key)
        id == IF isNew THEN p.created + 1 ELSE p.sessions[key]
        existing == IF isNew THEN [summary |-> None, activeMessages |-> <<>>]
                    ELSE p.objects[id]
        nonSystem == NonSystem(messages)
        p1 == [p EXCEPT !.objects = MapSet(@, id, [existing EXCEPT !.activeMessages = nonSystem]),
                        !.created = IF isNew THEN @ + 1 ELSE @]
    IN  IF EstimateMessagesTokens(nonSystem) > p.activeWindowTokens
        THEN [p1 EXCEPT !.inflight =
                 Append(@, [sessionId |-> key, id |-> id, issued |-> issued,
                            toKeep |-> From(nonSystem, Len(nonSystem) \div 2)])]
        ELSE [p1 EXCEPT !.sessions = MapSet(@, key, id)]

Without(s, k) == SubSeq(s, 1, k - 1) \o SubSeq(s, k + 1, Len(s))

\* _compress that summarizes and drops nothing
SummarizingCompressedKeepsAll(p, k, rawSummary) ==
    LET w == p.inflight[k]
    IN  [p EXCEPT !.objects = MapSet(@, w.id, [@[w.id] EXCEPT !.summary = Some(rawSummary)]),
                  !.sessions = MapSet(@, w.sessionId, w.id),
                  !.inflight = Without(@, k)]

\* _compress after model.complete answered rawSummary, and the end of the write
SummarizingCompressed(p, k, rawSummary) ==
    LET w == p.inflight[k]
        n == p.summaryMaxTokens * 4
        trimmedSummary == IF Len(rawSummary) > n THEN SubSeq(rawSummary, 1, n) ELSE rawSummary
    IN  [p EXCEPT !.objects = MapSet(@, w.id, [summary |-> Some(trimmedSummary),
                                               activeMessages |-> w.toKeep]),
                  !.sessions = MapSet(@, w.sessionId, w.id),
                  !.inflight = Without(@, k)]

\* model.complete threw: the write rejects before sessions.set
SummarizingCompressFailed(p, k) == [p EXCEPT !.inflight = Without(@, k)]

\* SummarizingMemory.clear(sessionId)
SummarizingClear(p, sessionId) ==
    IF Truthy(sessionId)
    THEN [p EXCEPT !.sessions = MapDelete(@, sessionId[1])]
    ELSE [p EXCEPT !.sessions = EmptyMap]

\* ---- a MemoryProvider of the application that implements read and write only
\* (clear and entries are optional in the interface)

Custom == [type |-> "custom", store |-> EmptyMap]
CustomRead(p, sessionId) == MapGet(p.store, SessionKey(sessionId), <<>>)
CustomWrite(p, messages, sessionId) ==
    [p EXCEPT !.store = MapSet(@, SessionKey(sessionId), messages)]

\* ---- CompositeMemory

Composite(readStrategy, providers) ==
    [type |-> "composite", readStrategy |-> readStrategy, providers |-> providers]

\* the providers a composite wraps here
WrappedRead(p, sessionId) ==
    CASE p.type = "buffer" -> BufferRead(p, sessionId)
      [] p.type = "sliding" -> SlidingRead(p, sessionId)
      [] p.type = "custom" -> CustomRead(p, sessionId)

WrappedWrite(p, messages, sessionId) ==
    CASE p.type = "buffer" -> BufferWrite(p, messages, sessionId)
      [] p.type = "sliding" -> SlidingWrite(p, messages, sessionId)
      [] p.type = "custom" -> CustomWrite(p, messages, sessionId)

\* p.clear?.(sessionId): a provider without clear is passed over
WrappedClear(p, sessionId) ==
    CASE p.type = "buffer" -> BufferClear(p, sessionId)
      [] p.type = "sliding" -> SlidingClear(p, sessionId)
      [] p.type = "custom" -> p

\* first-hit: what the first provider with a non-empty answer returns
RECURSIVE FirstHit(_, _)
FirstHit(providers, sessionId) ==
    IF providers = <<>> THEN <<>>
    ELSE LET messages == WrappedRead(Head(providers), sessionId)
         IN  IF Len(messages) > 0 THEN messages
             ELSE FirstHit(Tail(providers), sessionId)

\* merge: every answer in provider order, a message kept the first time its
\* role and content are seen
RECURSIVE Dedup(_, _, _)
Dedup(all, seen, merged) ==
    IF all = <<>> THEN merged
    ELSE LET msg == Head(all)
             key == << msg.role, msg.content >>
         IN  IF key \in seen THEN Dedup(Tail(all), seen, merged)
             ELSE Dedup(Tail(all), seen \cup {key}, Append(merged, msg))

\* CompositeMemory.read(options)
CompositeRead(p, sessionId) ==
    IF p.readStrategy = "first-hit"
    THEN FirstHit(p.providers, sessionId)
    ELSE Dedup(Flatten([i \in DOMAIN p.providers |-> WrappedRead(p.providers[i], sessionId)]),
               {}, <<>>)

\* a fan-out that goes from provider to provider and stops at the first to reject
FanOutSequential(p, messages, sessionId, failing) ==
    [i \in DOMAIN p.providers |->
        IF \E j \in failing : j < i
        THEN [outcome |-> "skipped", provider |-> p.providers[i]]
        ELSE IF i \in failing
        THEN [outcome |-> "rejected", provider |-> p.providers[i]]
        ELSE [outcome |-> "stored",
              provider |-> WrappedWrite(p.providers[i], messages, sessionId)]]

\* this.providers.map((p) => p.write(messages, options)): write is invoked on
\* every provider; the writes of the providers in failing reject, having stored
\* nothing, the others store
FanOut(p, messages, sessionId, failing) ==
    [i \in DOMAIN p.providers |->
        IF i \in failing
        THEN [outcome |-> "rejected", provider |-> p.providers[i]]
        ELSE [outcome |-> "stored",
              provider |-> WrappedWrite(p.providers[i], messages, sessionId)]]

\* what became of each provider's write
Outcomes(p, messages, sessionId, failing) ==
    [i \in DOMAIN p.providers |-> FanOut(p, messages, sessionId, failing)[i].outcome]

\* CompositeMemory.write(messages, options)
CompositeWrite(p, messages, sessionId, failing) ==
    [p EXCEPT !.providers =
        [i \in DOMAIN @ |-> FanOut(p, messages, sessionId, failing)[i].provider]]

\* the wrapped providers whose write can reject: the application's own
Failable(p) ==
    IF p.type = "composite"
    THEN {i \in DOMAIN p.providers : p.providers[i].type = "custom"}
    ELSE {}

\* a clear that reaches the first provider only
CompositeClearFirst(p, sessionId) ==
    [p EXCEPT !.providers[1] = WrappedClear(@, sessionId)]

\* CompositeMemory.clear(sessionId)
CompositeClear(p, sessionId) ==
    [p EXCEPT !.providers = [i \in DOMAIN @ |-> WrappedClear(@[i], sessionId)]]

\* ---- any provider

ProviderRead(p, sessionId) ==
    CASE p.type = "summarizing" -> SummarizingRead(p, sessionId)
      [] p.type = "composite" -> CompositeRead(p, sessionId)
      [] OTHER -> WrappedRead(p, sessionId)

ProviderWrite(p, messages, sessionId, issued, failing) ==
    CASE p.type = "summarizing" -> SummarizingWrite(p, messages, sessionId, issued)
      [] p.type = "composite" -> CompositeWrite(p, messages, sessionId, failing)
      [] OTHER -> WrappedWrite(p, messages, sessionId)

ProviderClear(p, sessionId) ==
    CASE p.type = "summarizing" -> SummarizingClear(p, sessionId)
      [] p.type = "composite" -> CompositeClear(p, sessionId)
      [] OTHER -> WrappedClear(p, sessionId)

\* ---- a memory provider alone: writes, reads and clears in any order

\* the session ids operations are made with: absent, the empty string, "a"
SessionIds == {None, Some(""), Some("a")}

User(n) == Msg("user", Chars(n))
Assistant(n) == Msg("assistant", Chars(n))
AssistantCalling ==
    [Msg("assistant", <<>>) EXCEPT !.toolCalls = << [id |-> 1, name |-> "search"] >>]
ToolAnswer == [Msg("tool", Chars(4)) EXCEPT !.toolCallId = Some(1)]

\* the message lists written: a short turn under a system prompt (11 tokens
\* without it), a turn with a tool call (22 tokens), an unanswered question (5)
Conversations ==
    { << Msg("system", Chars(2)), User(3), Assistant(5) >>,
      << User(8), AssistantCalling, ToolAnswer, Assistant(9) >>,
      << User(1) >> }

\* what the summarizing model answers
RawSummaries == { << "s", "u", "m", "m", "a", "r", "y" >>, << >> }

Providers ==
    { Buffer(2, None),
      Buffer(0, None),
      Buffer(BufferDefaultMaxMessages, Some(12)),
      SlidingWindow(12, 2),
      SlidingWindow(SlidingDefaultMaxTokens, SlidingDefaultMaxTurns),
      Summarizing(12, 1),
      Summarizing(SummarizingDefaultActiveWindowTokens, SummarizingDefaultSummaryMaxTokens),
      Composite("first-hit", << Buffer(BufferDefaultMaxMessages, None), SlidingWindow(12, 2) >>),
      Composite("merge", << Custom, Buffer(2, None) >>) }

\* an entry of memLog; of is, for the end of a suspended write, the position of
\* the write, and for a write to a composite, what became of each provider's write
Op(op, sessionId, messages, of) ==
    [op |-> op, sessionId |-> sessionId, messages |-> messages, of |-> of]

MemoryInit ==
    /\ memory \in Providers
    /\ memLog = <<>>
    /\ pc = "memory"
    /\ middlewares = <<>>
    /\ phase = "idle"
    /\ trace = <<>>
    /\ error = None
    /\ engine = "none"
    /\ policy = [allowedTools |-> None, tokenBudget |-> 0, maxSteps |-> 0]
    /\ config = <<>>
    /\ state = EmptyState
    /\ pending = <<>>
    /\ frame = <<>>
    /\ nextId = 0
    /\ responses = <<>>
    /\ output = None
    /\ runNo = 1
    /\ tools = AgentTools
    /\ toolLog = <<>>

agentVars == << engine, policy, middlewares, config, state, trace, pc, phase, pending,
           frame, nextId, responses, output, error, runNo, tools, toolLog >>

\* provider.write(messages, {sessionId})
MemoryWrite ==
    /\ pc = "memory"
    /\ Len(memLog) < MaxOps
    /\ \E sessionId \in SessionIds, messages \in Conversations,
          failing \in SUBSET Failable(memory) :
          /\ memory' = ProviderWrite(memory, messages, sessionId, Len(memLog) + 1, failing)
          /\ memLog' = Append(memLog,
                Op("write", sessionId, messages,
                   IF memory.type = "composite"
                   THEN Outcomes(memory, messages, sessionId, failing) ELSE 0))
    /\ UNCHANGED agentVars

\* a write suspended at model.complete goes on: the model answers or throws
MemoryCompress ==
    /\ pc = "memory"
    /\ memory.type = "summarizing"
    /\ Len(memLog) < MaxOps
    /\ \E k \in 1..Len(memory.inflight) :
          LET w == memory.inflight[k]
          IN  \/ \E rawSummary \in RawSummaries :
                    /\ memory' = SummarizingCompressed(memory, k, rawSummary)
                    /\ memLog' = Append(memLog, Op("compressed", Some(w.sessionId),
                                                   rawSummary, w.issued))
              \/ /\ memory' = SummarizingCompressFailed(memory, k)
                 /\ memLog' = Append(memLog, Op("failed", Some(w.sessionId), <<>>, w.issued))
    /\ UNCHANGED agentVars

\* provider.read({sessionId}): messages is what it returned
MemoryRead ==
    /\ pc = "memory"
    /\ Len(memLog) < MaxOps
    /\ \E sessionId \in SessionIds :
          memLog' = Append(memLog, Op("read", sessionId, ProviderRead(memory, sessionId), 0))
    /\ UNCHANGED << agentVars, memory >>

\* provider.clear(sessionId)
MemoryClear ==
    /\ pc = "memory"
    /\ Len(memLog) < MaxOps
    /\ \E sessionId \in SessionIds :
          /\ memory' = ProviderClear(memory, sessionId)
          /\ memLog' = Append(memLog, Op("clear", sessionId, <<>>, 0))
    /\ UNCHANGED agentVars

MemoryNext == MemoryWrite \/ MemoryCompress \/ MemoryRead \/ MemoryClear

MemorySpec == MemoryInit /\ [][MemoryNext]_vars

\* the last operation made on the provider
LastOp == memLog[Len(memLog)]
IsSuffix(r, s) == Len(r) <= Len(s) /\ r = From(s, Len(s) - Len(r))
\* the turns SlidingWindowMemory holds for a session
StoredTurns(sessionId) == MapGet(memory.sessions, SessionKey(sessionId), <<>>)

\* what of C16 the code does: a read of a session whose stored messages exceed
\* maxTokens returns a strict suffix of them that fits in maxTokens
C16_SuffixWithinBudget ==
    (memory.type = "sliding" /\ memLog # <<>> /\ LastOp.op = "read") =>
        LET stored == Flatten(StoredTurns(LastOp.sessionId))
            returned == LastOp.messages
        IN  EstimateMessagesTokens(stored) > memory.maxTokens =>
              /\ IsSuffix(returned, stored)
              /\ Len(returned) < Len(stored)
              /\ EstimateMessagesTokens(returned) <= memory.maxTokens

\* C16: SlidingWindowMemory: after writing turns whose estimated tokens exceed
\* maxTokens, read returns a strict suffix of the stored messages whose estimated
\* token sum is at most maxTokens, and the cut falls on a turn boundary: what is
\* returned is the messages of the last j stored turns, for some j.
C16_ReadCutsOnTurnBoundary ==
    (memory.type = "sliding" /\ memLog # <<>> /\ LastOp.op = "read") =>
        LET turns == StoredTurns(LastOp.sessionId)
            stored == Flatten(turns)
            returned == LastOp.messages
        IN  EstimateMessagesTokens(stored) > memory.maxTokens =>
              /\ IsSuffix(returned, stored)
              /\ Len(returned) < Len(stored)
              /\ EstimateMessagesTokens(returned) <= memory.maxTokens
              /\ \E j \in 0..Len(turns) : returned = Flatten(From(turns, j))

\* text has part in it
Contains(text, part) ==
    \E i \in 0..(Len(text) - Len(part)) : SubSeq(text, i + 1, i + Len(part)) = part

\* the provider is a SummarizingMemory and the last three operations are a write
\* over the budget, its compression, and a read of the session written
ReadAfterCompression ==
    /\ memory.type = "summarizing"
    /\ Len(memLog) >= 3
    /\ LastOp.op = "read"
    /\ memLog[Len(memLog) - 1].op = "compressed"
    /\ memLog[Len(memLog) - 1].of = Len(memLog) - 2
    /\ SessionKey(memLog[Len(memLog) - 2].sessionId) = SessionKey(LastOp.sessionId)

\* the non-system messages of that write, from index floor(n/2) on
RetainedHalf ==
    LET written == NonSystem(memLog[Len(memLog) - 2].messages)
    IN  From(written, Len(written) \div 2)

\* the summary the session read holds
StoredSummary == memory.objects[memory.sessions[SessionKey(LastOp.sessionId)]].summary[1]

\* C17 as stated: SummarizingMemory: after any write that triggered a compression,
\* read returns a list whose first element has role system and content
\* containing the stored summary, followed by exactly the messages of the write
\* from index floor(n/2) on, in order.
C17_SummaryThenRetainedHalf ==
    ReadAfterCompression =>
        /\ LastOp.messages # <<>>
        /\ LastOp.messages[1].role = "system"
        /\ Contains(LastOp.messages[1].content, StoredSummary)
        /\ Tail(LastOp.messages) = RetainedHalf

\* C17, amended: the same when the stored summary is not the empty string; when
\* it is, read returns the retained half alone, with no system message.
C17_SummaryIfAnyThenRetainedHalf ==
    ReadAfterCompression =>
        IF StoredSummary # <<>>
        THEN /\ LastOp.messages # <<>>
             /\ LastOp.messages[1].role = "system"
             /\ Contains(LastOp.messages[1].content, StoredSummary)
             /\ Tail(LastOp.messages) = RetainedHalf
        ELSE LastOp.messages = RetainedHalf

C17_Witness ==
    /\ ReadAfterCompression
    /\ StoredSummary # <<>>
    /\ Len(RetainedHalf) = 2
    /\ Len(LastOp.messages) = 3

\* the last two operations are clear(sessionId) and read({sessionId})
ReadAfterClear ==
    /\ Len(memLog) >= 2
    /\ LastOp.op = "read"
    /\ memLog[Len(memLog) - 1].op = "clear"
    /\ memLog[Len(memLog) - 1].sessionId = LastOp.sessionId

\* every provider the composite wraps implements clear
WrapsClearable(p) ==
    p.type = "composite" => \A i \in DOMAIN p.providers : p.providers[i].type # "custom"

\* C18 as stated: for every memory provider (Buffer, SlidingWindow, Summarizing,
\* Composite over any wrapped providers) and every sessionId, after any sequence
\* of writes, clear(sessionId) followed by read({sessionId}) returns an empty
\* sequence.
C18_ClearThenReadEmpty == ReadAfterClear => LastOp.messages = <<>>

\* C18, amended: the same for Buffer, SlidingWindow, Summarizing, and for a
\* Composite whose wrapped providers all implement clear.
C18_ClearThenReadEmptyIfClearable ==
    (ReadAfterClear /\ WrapsClearable(memory)) => LastOp.messages = <<>>

\* a composite of clearable providers was written, cleared and read
C18_Witness ==
    /\ ReadAfterClear
    /\ memory.type = "composite" /\ WrapsClearable(memory)
    /\ Len(memLog) = 3
    /\ memLog[1].op = "write"
    /\ memLog[1].sessionId = LastOp.sessionId
    /\ LastOp.messages = <<>>

\* the step is a write or a clear made with session id a (or the end of such a
\* write), on a Buffer, SlidingWindow or Summarizing provider
ChangesSession(a) ==
    /\ memory.type \in {"buffer", "sliding", "summarizing"}
    /\ Len(memLog') = Len(memLog) + 1
    /\ memLog'[Len(memLog')].op \in {"write", "clear", "compressed", "failed"}
    /\ memLog'[Len(memLog')].sessionId = Some(a)

\* the step leaves what read returns for every session id but a as it was
OthersReadTheSame(a) ==
    \A b \in SessionIds :
        SessionKey(b) # a => ProviderRead(memory', b) = ProviderRead(memory, b)

\* C19: session isolation: for Buffer, SlidingWindow and Summarizing providers, a
\* write or clear performed with sessionId A never changes what read returns
\* for a different sessionId B, for all session identifiers A # B.
C19_SessionIsolation ==
    [][\A a \in {"", "a"} : ChangesSession(a) => OthersReadTheSame(a)]_vars

\* what of C19 the code does: the same for every A but the empty string
C19_NonEmptySessionIsolation ==
    [][\A a \in {"a"} : ChangesSession(a) => OthersReadTheSame(a)]_vars

\* the positions in memLog of the writes
Writes == {i \in 1..Len(memLog) : memLog[i].op = "write"}

\* two writes were made to the same session of a Buffer, SlidingWindow or
\* Summarizing provider, nothing else, and both have completed
TwoWritesCompleted ==
    /\ memory.type \in {"buffer", "sliding", "summarizing"}
    /\ Cardinality(Writes) = 2
    /\ \A i \in 1..Len(memLog) : memLog[i].op \in {"write", "compressed"}
    /\ \A i, j \in Writes : SessionKey(memLog[i].sessionId) = SessionKey(memLog[j].sessionId)
    /\ memory.type = "summarizing" => memory.inflight = <<>>

\* the write issued last
LastWrite == memLog[CHOOSE i \in Writes : \A j \in Writes : j <= i]

\* the messages the provider holds for a session
StoredHistory(p, key) ==
    CASE p.type = "buffer" -> MapGet(p.store, key, <<>>)
      [] p.type = "sliding" -> Flatten(MapGet(p.sessions, key, <<>>))
      [] p.type = "summarizing" ->
            IF MapHas(p.sessions, key) THEN p.objects[p.sessions[key]].activeMessages
            ELSE <<>>

\* the messages a write of messages alone leaves in a new provider configured as p
StoredAlone(p, messages) ==
    LET nonSystem == NonSystem(messages)
    IN  CASE p.type = "buffer" -> LastN(nonSystem, p.maxMessages)
          [] p.type = "sliding" -> Flatten(LastN(GroupIntoTurns(nonSystem), p.maxTurns))
          [] p.type = "summarizing" ->
                IF EstimateMessagesTokens(nonSystem) > p.activeWindowTokens
                THEN From(nonSystem, Len(nonSystem) \div 2)
                ELSE nonSystem

\* C20: last-write-wins: when two runs write the same sessionId on the same
\* Buffer, SlidingWindow or Summarizing provider, in any interleaving of their
\* write operations, the history stored once both writes have completed is
\* exactly what the write issued last would have stored on its own.
C20_LastWriteWins ==
    TwoWritesCompleted =>
        StoredHistory(memory, SessionKey(LastWrite.sessionId))
            = StoredAlone(memory, LastWrite.messages)

\* what of C20 the code does: BufferMemory, whose write has no await in it
C20_BufferLastWriteWins ==
    (TwoWritesCompleted /\ memory.type = "buffer") =>
        StoredHistory(memory, SessionKey(LastWrite.sessionId))
            = StoredAlone(memory, LastWrite.messages)

\* SummarizingMemory alone
C20_SummarizingLastWriteWins ==
    (TwoWritesCompleted /\ memory.type = "summarizing") =>
        StoredHistory(memory, SessionKey(LastWrite.sessionId))
            = StoredAlone(memory, LastWrite.messages)

\* the position in memLog of the most recent write to the session of key
MostRecentWrite(key) ==
    CHOOSE i \in Writes :
        /\ SessionKey(memLog[i].sessionId) = key
        /\ \A j \in Writes : SessionKey(memLog[j].sessionId) = key => j <= i

\* the last n elements of s, all of s if it has fewer
Newest(s, n) == IF Len(s) <= n THEN s ELSE SubSeq(s, Len(s) - n + 1, Len(s))

\* the history BufferMemory holds for key is the last maxMessages non-system
\* messages of the most recent write to it
BufferHoldsNewest(key) ==
    LET stored == memory.store[key]
    IN  /\ \A i \in 1..Len(stored) : stored[i].role # "system"
        /\ Len(stored) <= memory.maxMessages
        /\ stored = Newest(NonSystem(memLog[MostRecentWrite(key)].messages),
                           memory.maxMessages)

\* C21: BufferMemory: after any sequence of writes, the stored history of a
\* session contains no system message and at most maxMessages messages, namely
\* the last maxMessages non-system messages of the most recent write, in their
\* original order.
C21_BufferHoldsNewest ==
    memory.type = "buffer" => \A key \in DOMAIN memory.store : BufferHoldsNewest(key)

\* what of C21 the code does: the same when maxMessages is at least 1
C21_BufferHoldsNewestPositive ==
    (memory.type = "buffer" /\ memory.maxMessages >= 1) =>
        \A key \in DOMAIN memory.store : BufferHoldsNewest(key)

\* the step is a write to a CompositeMemory
CompositeWritten ==
    /\ memory.type = "composite"
    /\ Len(memLog') = Len(memLog) + 1
    /\ memLog'[Len(memLog')].op = "write"

\* C22: CompositeMemory.write invokes write on every wrapped provider
\* unconditionally: each provider receives the write even when another
\* provider's write fails (no write is skipped, and every provider whose own
\* write did not fail has stored the messages), and after a successful composite
\* write every wrapped provider has stored it.
C22_WriteReachesEveryProvider ==
    [][CompositeWritten =>
        LET w == memLog'[Len(memLog')]
        IN  \A i \in DOMAIN memory.providers :
               /\ w.of[i] \in {"stored", "rejected"}
               /\ w.of[i] = "rejected" => i \in Failable(memory)
               /\ w.of[i] = "stored" =>
                     memory'.providers[i] =
                         WrappedWrite(memory.providers[i], w.messages, w.sessionId)]_vars

\* the first provider's write failed and the second provider stored the messages
C22_Witness ==
    /\ memory.type = "composite"
    /\ memLog # <<>>
    /\ LastOp.op = "write"
    /\ LastOp.of = << "rejected", "stored" >>
    /\ WrappedRead(memory.providers[2], LastOp.sessionId) # <<>>
    /\ WrappedRead(memory.providers[1], LastOp.sessionId) = <<>>

\* ---------------------------------------------------- the tool registry alone

\* how many operations are made on a tool registry
MaxRegistryOps == 3

RegistryNames == {"search", "calc", "finish"}
Descriptions == {"d1", "d2"}

\* the part of the state no operation on a registry, and nothing made by the
\* factory, touches
NoRun ==
    /\ middlewares = <<>>
    /\ phase = "idle"
    /\ trace = <<>>
    /\ error = None
    /\ engine = "none"
    /\ policy = [allowedTools |-> None, tokenBudget |-> 0, maxSteps |-> 0]
    /\ config = <<>>
    /\ state = EmptyState
    /\ pending = <<>>
    /\ frame = <<>>
    /\ nextId = 0
    /\ responses = <<>>
    /\ output = None
    /\ runNo = 1
    /\ memory = NoMemory
    /\ memLog = <<>>

noRun == << engine, policy, middlewares, config, state, trace, phase, pending,
            frame, nextId, responses, output, error, runNo, memory, memLog >>

\* new ToolRegistry()
RegistryInit ==
    /\ tools = NoTools
    /\ toolLog = <<>>
    /\ pc = "registry"
    /\ NoRun

\* registry.register(tool)
RegistryRegister ==
    /\ pc = "registry"
    /\ Len(toolLog) < MaxRegistryOps
    /\ \E name \in RegistryNames, description \in Descriptions :
          LET tool == Definition(name, description)
          IN  /\ tools' = Register(tools, tool)
              /\ toolLog' = Append(toolLog, [op |-> "register", name |-> name,
                                             tool |-> <<tool>>])
    /\ UNCHANGED << noRun, pc >>

\* registry.get(name): tool is what it returned
RegistryGet ==
    /\ pc = "registry"
    /\ Len(toolLog) < MaxRegistryOps
    /\ \E name \in RegistryNames :
          toolLog' = Append(toolLog, [op |-> "get", name |-> name,
                                      tool |-> Get(tools, name)])
    /\ UNCHANGED << noRun, pc, tools >>

RegistryNext == RegistryRegister \/ RegistryGet

RegistrySpec == RegistryInit /\ [][RegistryNext]_vars

\* the positions in toolLog of the registrations of name
Registrations(name) ==
    {i \in 1..Len(toolLog) : toolLog[i].op = "register" /\ toolLog[i].name = name}
LastLookup == toolLog[Len(toolLog)]

\* C23: ToolRegistry round-trip: after any sequence of register calls, get(name)
\* returns a definition whose schema.name equals name for every name that was
\* registered (the most recently registered definition for that name), and
\* undefined for every name never registered.
C23_GetReturnsLastRegistered ==
    (pc = "registry" /\ toolLog # <<>> /\ LastLookup.op = "get") =>
        LET regs == Registrations(LastLookup.name)
        IN  IF regs = {} THEN LastLookup.tool = << >>
            ELSE /\ LastLookup.tool # << >>
                 /\ LastLookup.tool[1].schema.name = LastLookup.name
                 /\ LastLookup.tool = toolLog[Largest(regs)].tool

\* a name registered twice, with two descriptions, was looked up
C23_Witness ==
    /\ pc = "registry"
    /\ Len(toolLog) = 3
    /\ LastLookup.op = "get"
    /\ Cardinality(Registrations(LastLookup.name)) = 2
    /\ toolLog[1].tool # toolLog[2].tool
    /\ LastLookup.tool = toolLog[2].tool

\* --------------------------------------- AgentInstance.run around the engine

\* the events AgentInstance.run and pushStep emit
Events == {"run:start", "run:end", "memory:read", "memory:write", "step:reasoning",
           "error"}

\* the handler the application registered with agent.on: for which event, and
\* whether it throws (or rejects) or never completes; "none": no handler
Handler(event, does) == [event |-> event, does |-> does]
Handlers ==
    {Handler("none", "ok")} \cup {Handler(e, d) : e \in Events, d \in {"throws", "hangs"}}

HandlerError(event) == << "HandlerError", event >>
NoModelError == << "Error", "No model provider configured." >>
NotRegisteredError(name) == << "Error", "Reasoning strategy not registered", name >>
ModelError == << "ModelError", "unavailable" >>
MemoryError(op) == << "MemoryError", op >>

\* an agent: whether it has a model provider, whether an engine instance was
\* given it, the strategy name set if any, the names in engineRegistry, and the
\* handler registered
Agents ==
    [model : BOOLEAN, engineGiven : BOOLEAN,
     strategy : {None, Some("react"), Some("planner")},
     registry : {{}, {"react"}, {"react", "planner"}},
     handler : Handlers]

\* a resolution that takes the default when the name set is not registered
ResolveEngineFallsBack(agent) ==
    IF agent.engineGiven THEN [engine |-> "custom", error |-> None]
    ELSE IF agent.strategy # None /\ agent.strategy[1] \in agent.registry
    THEN [engine |-> agent.strategy[1], error |-> None]
    ELSE IF "react" \in agent.registry THEN [engine |-> "react", error |-> None]
    ELSE [engine |-> "passthrough", error |-> None]

\* AgentInstance._resolveEngine
ResolveEngine(agent) ==
    IF agent.engineGiven THEN [engine |-> "custom", error |-> None]
    ELSE IF agent.strategy # None
    THEN IF agent.strategy[1] \in agent.registry
         THEN [engine |-> agent.strategy[1], error |-> None]
         ELSE [engine |-> "none", error |-> Some(NotRegisteredError(agent.strategy[1]))]
    ELSE IF "react" \in agent.registry THEN [engine |-> "react", error |-> None]
    ELSE [engine |-> "passthrough", error |-> None]

\* the session of the run
RunSession == Some("a")

\* the pipelines and the memory providers of the agents that run
RunMiddlewares ==
    { << >>,
      << Mw("guard", Some({"run:before"}), "throw") >>,
      << Mw("audit", Some({"run:after"}), "throw") >> }
RunMemories == { NoMemory, Buffer(BufferDefaultMaxMessages, None), Custom,
                 SlidingWindow(SlidingDefaultMaxTokens, SlidingDefaultMaxTurns) }

\* agent.run(input) is called: createContext has made ctx
RunInit ==
    /\ config \in Agents
    /\ middlewares \in RunMiddlewares
    /\ memory \in RunMemories
    /\ pc = "created"
    /\ engine = "none"
    /\ state = EmptyState
    /\ trace = <<>>
    /\ frame = <<>>
    /\ output = None
    /\ error = None
    /\ phase = "idle"
    /\ policy = [allowedTools |-> None, tokenBudget |-> 0, maxSteps |-> 0]
    /\ pending = <<>>
    /\ nextId = 0
    /\ responses = <<>>
    /\ runNo = 1
    /\ memLog = <<>>
    /\ tools = AgentTools
    /\ toolLog = <<>>

aroundRun == << config, middlewares, policy, phase, pending, nextId, responses, runNo,
                memLog, tools, toolLog >>

\* EventEmitter.emit(event, payload), awaited: the event is delivered, and emit
\* resolves, rejects with what the handler threw, or never settles
Emit(tr, event, payload) ==
    [trace |-> Append(tr, << "emit", event, payload >>),
     event |-> event,
     outcome |-> IF config.handler.event = event THEN config.handler.does ELSE "ok"]

\* an emit that waits for no handler
EmitNoWait(tr, event, payload) ==
    [trace |-> Append(tr, << "emit", event, payload >>), event |-> event, outcome |-> "ok"]

\* run goes on to its next await
Goes(tr, st, next) ==
    /\ trace' = tr
    /\ state' = st
    /\ pc' = next
    /\ UNCHANGED << output, error >>

\* run rejects with err
Rejects(tr, st, err) ==
    /\ trace' = tr
    /\ state' = st
    /\ pc' = "rejected"
    /\ error' = Some(err)
    /\ UNCHANGED output

\* run is left waiting for a promise that never settles
Hangs(tr, st) ==
    /\ trace' = tr
    /\ state' = st
    /\ pc' = "hung"
    /\ UNCHANGED << output, error >>

\* the catch of run: emit('error', err), awaited, then throw err
Caught(tr, st, err) ==
    LET e == Emit(tr, "error", err)
    IN  CASE e.outcome = "ok" -> Rejects(e.trace, st, err)
          [] e.outcome = "throws" -> Rejects(e.trace, st, HandlerError("error"))
          [] e.outcome = "hangs" -> Hangs(e.trace, st)

\* an awaited emit inside the try of run, and what follows it
Emitted(e, st, next) ==
    CASE e.outcome = "ok" -> Goes(e.trace, st, next)
      [] e.outcome = "throws" -> Caught(e.trace, st, HandlerError(e.event))
      [] e.outcome = "hangs" -> Hangs(e.trace, st)

\* run, line 87: emit('run:start'), before the try
RunBegin ==
    /\ pc = "created"
    /\ LET e == Emit(trace, "run:start", <<>>)
       IN  CASE e.outcome = "ok" -> Goes(e.trace, state, "before")
             [] e.outcome = "throws" -> Rejects(e.trace, state, HandlerError("run:start"))
             [] e.outcome = "hangs" -> Hangs(e.trace, state)
    /\ UNCHANGED << aroundRun, engine, frame, memory >>

\* run, line 90: the run:before middleware
RunBefore ==
    /\ pc = "before"
    /\ LET run == MiddlewareRun(middlewares, "run:before")
           tr == trace \o MwTrace(run, "run:before", 0)
       IN  IF run.threw # None THEN Caught(tr, state, run.threw[1])
           ELSE Goes(tr, state, "load")
    /\ UNCHANGED << aroundRun, engine, frame, memory >>

\* _executeWithEngine up to engine.execute: the model provider is required, the
\* engine resolved, the messages seeded, the history read from memory
RunLoad ==
    /\ pc = "load"
    /\ LET r == ResolveEngine(config)
           seeded == << [role |-> "system", content |-> SystemPrompt,
                         toolCallId |-> None, toolCalls |-> <<>>],
                        [role |-> "user", content |-> Input,
                         toolCallId |-> None, toolCalls |-> <<>>] >>
           st == [state EXCEPT !.messages = seeded]
       IN  IF ~config.model
           THEN Caught(trace, state, NoModelError) /\ engine' = engine
           ELSE IF r.error # None
           THEN Caught(trace, state, r.error[1]) /\ engine' = engine
           ELSE /\ engine' = r.engine
                /\ IF memory.type = "none" THEN Goes(trace, st, "engine")
                   ELSE LET e == Emit(trace, "memory:read", <<>>)
                            tr == Append(e.trace, << "memory", "read" >>)
                        IN  IF e.outcome # "ok" THEN Emitted(e, st, "engine")
                            ELSE \/ /\ memory.type = "custom"
                                    /\ Caught(tr, st, MemoryError("read"))
                                 \/ Goes(tr, [st EXCEPT !.messages =
                                                ProviderRead(memory, RunSession) \o seeded],
                                         "engine")
    /\ UNCHANGED << aroundRun, frame, memory >>

\* engine.execute: the model is called once; it throws, or it answers, and the
\* answer is pushed as a message and as a response step, whose step:reasoning
\* event nobody waits for
RunEngine ==
    /\ pc = "engine"
    /\ LET tr == Append(trace, << "model" >>)
       IN  \/ Caught(tr, state, ModelError) /\ frame' = frame
           \/ LET e == EmitNoWait(tr, "step:reasoning", "response")
                  st == [state EXCEPT
                            !.messages = Append(@, [role |-> "assistant", content |-> Ans,
                                                    toolCallId |-> None, toolCalls |-> <<>>]),
                            !.steps = Append(@, [type |-> "response", content |-> Ans,
                                                 engine |-> engine])]
              IN  Goes(e.trace, st, "persist") /\ frame' = [output |-> Ans]
    /\ UNCHANGED << aroundRun, engine, memory >>

\* _executeWithEngine after engine.execute: the messages are written to memory
RunPersist ==
    /\ pc = "persist"
    /\ IF memory.type = "none" THEN Goes(trace, state, "after") /\ memory' = memory
       ELSE LET e == Emit(trace, "memory:write", <<>>)
                tr == Append(e.trace, << "memory", "write" >>)
            IN  IF e.outcome # "ok" THEN Emitted(e, state, "after") /\ memory' = memory
                ELSE \/ /\ memory.type = "custom"
                        /\ Caught(tr, state, MemoryError("write"))
                        /\ memory' = memory
                     \/ /\ Goes(tr, state, "after")
                        /\ memory' = ProviderWrite(memory, state.messages, RunSession, 0, {})
    /\ UNCHANGED << aroundRun, engine, frame >>

\* run, lines 92-95: the run:after middleware, emit('run:end'), return
RunAfter ==
    /\ pc = "after"
    /\ LET run == MiddlewareRun(middlewares, "run:after")
           tr == trace \o MwTrace(run, "run:after", 0)
           e == Emit(tr, "run:end", <<>>)
       IN  IF run.threw # None THEN Caught(tr, state, run.threw[1])
           ELSE IF e.outcome # "ok" THEN Emitted(e, state, "resolved")
           ELSE /\ trace' = e.trace
                /\ state' = state
                /\ pc' = "resolved"
                /\ output' = Some(frame.output)
                /\ error' = error
    /\ UNCHANGED << aroundRun, engine, frame, memory >>

\* agent.run(input) is called again on the same agent and session, once the run
\* before it has settled: createContext makes a new ctx, the memory provider is
\* the agent's
RunRepeat ==
    /\ pc \in {"resolved", "rejected"}
    /\ runNo < MaxRuns
    /\ runNo' = runNo + 1
    /\ pc' = "created"
    /\ engine' = "none"
    /\ state' = EmptyState
    /\ trace' = <<>>
    /\ frame' = <<>>
    /\ output' = None
    /\ error' = None
    /\ UNCHANGED << config, middlewares, policy, phase, pending, nextId, responses,
                    memLog, tools, toolLog, memory >>

RunNext ==
    RunBegin \/ RunBefore \/ RunLoad \/ RunEngine \/ RunPersist \/ RunAfter \/ RunRepeat

RunSpec == RunInit /\ [][RunNext]_vars

\* the positions in the trace of the emits of event
EmitsOf(event) ==
    {i \in 1..Len(trace) : trace[i][1] = "emit" /\ trace[i][2] = event}
\* how many times the model was called, and memory read or written
ModelCalls == Cardinality({i \in 1..Len(trace) : trace[i] = << "model" >>})
MemoryOps(op) == Cardinality({i \in 1..Len(trace) : trace[i] = << "memory", op >>})

\* run rejected after one error event that carried the error it rejected with,
\* and nothing was tried twice
RejectedAfterErrorEvent ==
    /\ Cardinality(EmitsOf("error")) = 1
    /\ \A i \in EmitsOf("error") : trace[i][3] = error[1]
    /\ ModelCalls <= 1
    /\ MemoryOps("read") <= 1
    /\ MemoryOps("write") <= 1

\* C24: whenever AgentInstance.run rejects, for any cause, an error event
\* carrying that same error was emitted exactly once before the rejection
\* reached the caller, and no model call, tool call or memory operation is
\* retried.
C24_RejectionFollowsErrorEvent == pc = "rejected" => RejectedAfterErrorEvent

\* what of C24 the code does: the same when no event handler throws or hangs
C24_RejectionFollowsErrorEventNoHandler ==
    (pc = "rejected" /\ config.handler.event = "none") => RejectedAfterErrorEvent

\* the agent has a strategy name set that is not in the engine registry
UnregisteredName == config.strategy # None /\ config.strategy[1] \notin config.registry

\* the run has not gone past the start of _executeWithEngine, or it has failed:
\* no memory read, no model call, no step pushed, no engine resolved
FailsAtStart ==
    /\ pc \in {"created", "before", "load", "rejected", "hung"}
    /\ MemoryOps("read") = 0
    /\ ModelCalls = 0
    /\ state.steps = <<>>
    /\ engine = "none"

InRun == pc \in {"created", "before", "load", "engine", "persist", "after",
                 "resolved", "rejected", "hung"}

\* the engine run is a default one (ReAct or passthrough) only if no engine
\* instance was given and no strategy name set
FallbackOnlyUnset ==
    /\ engine = "passthrough" => (config.strategy = None /\ ~config.engineGiven)
    /\ (engine = "react" /\ config.strategy # Some("react")) =>
           (config.strategy = None /\ ~config.engineGiven)

\* C25 as stated: a run on an agent with no model backend, or with a named
\* reasoning strategy that is not in the engine registry, fails before any
\* memory read, any model call and any pushed step, and never falls back to
\* another engine; the fallback to ReAct or passthrough happens only when no
\* strategy name was set at all.
C25_ConfigurationErrorsFailAtStart ==
    InRun => /\ (~config.model \/ UnregisteredName) => FailsAtStart
             /\ FallbackOnlyUnset

\* C25, amended: the same for an agent with no model backend, or with an
\* unregistered strategy name and no engine instance given: an engine instance
\* given to the agent is the one run, whatever name is set.
C25_ConfigurationErrorsFailAtStartUnlessInstance ==
    InRun => /\ (~config.model \/ (UnregisteredName /\ ~config.engineGiven)) => FailsAtStart
             /\ FallbackOnlyUnset
             /\ (config.engineGiven /\ engine # "none") => engine = "custom"

\* a run with a memory provider on an agent whose strategy "planner" is not
\* registered (while "react" is) has rejected with the registry's error
C25_Witness ==
    /\ pc = "rejected"
    /\ config.model /\ ~config.engineGiven
    /\ config.strategy = Some("planner") /\ config.registry = {"react"}
    /\ memory.type = "buffer"
    /\ error = Some(NotRegisteredError("planner"))
    /\ Cardinality(EmitsOf("error")) = 1

\* the run neither waits for a handler for ever nor rejects with what a handler
\* threw: it goes as it would with no handler registered
UntouchedByHandler ==
    /\ pc # "hung"
    /\ pc = "rejected" => error[1][1] # "HandlerError"

\* C26: event delivery is fire-and-forget: a handler that throws or never
\* completes, registered for any lifecycle event (run:start, run:end,
\* memory:read, memory:write, step:reasoning), does not change whether run
\* resolves, what it returns, or the resulting ExecutionState.
C26_HandlersDoNotAffectRun ==
    (InRun /\ config.handler.event \in {"run:start", "run:end", "memory:read",
                                        "memory:write", "step:reasoning"})
        => UntouchedByHandler

\* what of C26 the code does: the same for step:reasoning, which pushStep emits
\* without awaiting
C26_StepHandlersDoNotAffectRun ==
    (InRun /\ config.handler.event = "step:reasoning") => UntouchedByHandler

\* the types of the steps in state.steps, and of the steps the step:reasoning
\* events carried, each in order
StepTypes == [k \in 1..Len(state.steps) |-> state.steps[k].type]
StepEvents ==
    SelectSeq(trace, LAMBDA t : t[1] = "emit" /\ t[2] = "step:reasoning")
StepEventTypes == [k \in 1..Len(StepEvents) |-> StepEvents[k][3]]

\* C27: every step appended to state.steps during a run is also emitted as a
\* step:reasoning event, once and in the same order, so a step:reasoning
\* listener observes the complete step record of the run, tool_call and
\* tool_result steps included.
C27_EveryStepEmitted ==
    pc \in {"start", "model", "tool", "returned", "thrown"} => StepEventTypes = StepTypes

\* what of C27 the code does: the steps the engines push with pushStep are
\* emitted once each and in order; the tool_result steps callTool appends are not
C27_PushedStepsEmitted ==
    pc \in {"start", "model", "tool", "returned", "thrown"} =>
        StepEventTypes = SelectSeq(StepTypes, LAMBDA t : t # "tool_result")

\* ------------------------------------------------------ createAgent, decorators

\* how many methods a class given to createAgent has, and parameters a method
MaxMethods == 2
MaxParams == 2

MethodNames == << "m1", "m2", "m3", "m4" >>
ArgNames == {"x", "y"}

\* the parameters of a method: for each, the name @Arg gave it, if decorated;
\* no name is given twice
ParamLists ==
    {ps \in UNION {[1..n -> {None} \cup {Some(a) : a \in ArgNames}] : n \in 0..MaxParams} :
        \A i, j \in DOMAIN ps : (i # j /\ ps[i] # None) => ps[i] # ps[j]}

\* what @Tool gave a method, if decorated
ToolConfigs == {None, Some([name |-> "t1", description |-> "d1"]),
                Some([name |-> "t2", description |-> "d2"])}

\* the methods of a class, in the order of Object.getOwnPropertyNames
RECURSIVE MethodLists(_)
MethodLists(n) ==
    IF n = 0 THEN {<<>>}
    ELSE LET shorter == MethodLists(n - 1)
         IN  shorter \cup
             {Append(ms, [name |-> MethodNames[Len(ms) + 1], tool |-> t, params |-> ps]) :
                 ms \in {m \in shorter : Len(m) = n - 1}, t \in ToolConfigs, ps \in ParamLists}

\* what createAgent is given: a class, decorated with @Agent or not, or a config
\* object with its tools
Classes(n) ==
    {[kind |-> "class", agent |-> TRUE, methods |-> ms] : ms \in MethodLists(n)}
        \cup {[kind |-> "class", agent |-> FALSE, methods |-> <<>>]}
ConfigObjects ==
    {[kind |-> "config", tools |-> ts] :
        ts \in {<<>>, << Definition("search", "d1") >>,
                << Definition("search", "d1"), Definition("calc", "d1") >>}}

\* the array @Arg leaves in the metadata of a method: existingArgs[parameterIndex]
\* = config, so it reaches to the last decorated parameter, with a hole for each
\* undecorated parameter before it
ArgMetadata(params) ==
    LET decorated == {i \in DOMAIN params : params[i] # None}
    IN  IF decorated = {} THEN <<>>
        ELSE SubSeq(params, 1, CHOOSE i \in decorated : \A j \in decorated : j <= i)

NotDecoratedError == << "Error", "is not decorated with @Agent" >>
HoleError == << "TypeError", "Cannot read properties of undefined (reading 'name')" >>

\* the tool createAgent builds for a decorated method: its schema, the method
\* execute calls, and the names execute reads from the call arguments, in order
MethodTool(m) ==
    LET args == ArgMetadata(m.params)
    IN  [schema |-> [name |-> m.tool[1].name, description |-> m.tool[1].description],
         method |-> m.name,
         args |-> [i \in DOMAIN args |-> args[i][1]]]

\* the loop over the methods: the tools built, or the error of the first
\* decorated method whose metadata has a hole (args[i]!.name)
RECURSIVE ExtractTools(_, _, _)
ExtractTools(methods, k, built) ==
    IF k > Len(methods) THEN [tools |-> built, threw |-> None]
    ELSE LET m == methods[k]
         IN  IF m.tool = None THEN ExtractTools(methods, k + 1, built)
             ELSE IF \E i \in DOMAIN ArgMetadata(m.params) : ArgMetadata(m.params)[i] = None
             THEN [tools |-> built, threw |-> Some(HoleError)]
             ELSE ExtractTools(methods, k + 1, Append(built, MethodTool(m)))

\* AgentInstance constructor: config.tools.forEach((t) => this._tools.register(t))
RECURSIVE RegisterAll(_, _, _)
RegisterAll(registry, ts, k) ==
    IF k > Len(ts) THEN registry
    ELSE RegisterAll(Register(registry, ts[k]), ts, k + 1)

\* createAgent(configOrClass): the registry of the agent made, or the error
CreateAgent(given) ==
    IF given.kind = "config"
    THEN [tools |-> Some(RegisterAll(NoTools, given.tools, 1)), threw |-> None]
    ELSE IF ~given.agent THEN [tools |-> None, threw |-> Some(NotDecoratedError)]
    ELSE LET x == ExtractTools(given.methods, 1, <<>>)
         IN  IF x.threw # None THEN [tools |-> None, threw |-> x.threw]
             ELSE [tools |-> Some(RegisterAll(NoTools, x.tools, 1)), threw |-> None]

\* the call arguments given to a tool's execute: the names present; the value
\* of a name is the name itself
CallArgs == {{"x", "y"}, {"y"}}
\* args.map(arg => callArgs[arg.name]): undefined for a name not present
OrderedArgs(tool, callArgs) ==
    [i \in DOMAIN tool.args |-> IF tool.args[i] \in callArgs THEN Some(tool.args[i]) ELSE None]

\* createAgent is about to be called with config
FactoryInit ==
    /\ config \in Classes(MaxMethods) \cup ConfigObjects
    /\ pc = "factory"
    /\ tools = NoTools
    /\ toolLog = <<>>
    /\ error = None
    /\ middlewares = <<>> /\ phase = "idle" /\ trace = <<>> /\ engine = "none"
    /\ policy = [allowedTools |-> None, tokenBudget |-> 0, maxSteps |-> 0]
    /\ state = EmptyState /\ pending = <<>> /\ frame = <<>> /\ nextId = 0
    /\ responses = <<>> /\ output = None /\ runNo = 1
    /\ memory = NoMemory /\ memLog = <<>>

\* createAgent(config)
FactoryCreate ==
    /\ pc = "factory"
    /\ LET made == CreateAgent(config)
       IN  IF made.threw # None
           THEN pc' = "refused" /\ error' = made.threw /\ tools' = tools
           ELSE pc' = "made" /\ error' = error /\ tools' = made.tools[1]
    /\ UNCHANGED << engine, policy, middlewares, config, state, trace, phase, pending,
                    frame, nextId, responses, output, runNo, memory, memLog, toolLog >>

\* tool.execute(callArgs) on a tool of the agent made from a class: toolLog gets
\* the method called and the arguments it was called with
FactoryExecute ==
    /\ pc = "made"
    /\ config.kind = "class"
    /\ toolLog = <<>>
    /\ \E name \in DOMAIN tools, callArgs \in CallArgs :
          toolLog' = << [op |-> "execute", name |-> name, callArgs |-> callArgs,
                         method |-> tools[name].method,
                         passed |-> OrderedArgs(tools[name], callArgs)] >>
    /\ UNCHANGED << noRun, pc, tools >>

FactoryNext == FactoryCreate \/ FactoryExecute

FactorySpec == FactoryInit /\ [][FactoryNext]_vars

\* the methods of the class given that carry @Tool
DecoratedMethods == {k \in DOMAIN config.methods : config.methods[k].tool # None}
\* the names @Arg gave the parameters of a method, in declaration order
DeclaredArgs(m) ==
    LET named == SelectSeq(m.params, LAMBDA p : p # None)
    IN  [i \in DOMAIN named |-> named[i][1]]
\* the agent made has one tool for the method, with the decorator's name and
\* description
HasToolOf(m) ==
    /\ m.tool[1].name \in DOMAIN tools
    /\ tools[m.tool[1].name].schema = [name |-> m.tool[1].name,
                                       description |-> m.tool[1].description]
    /\ tools[m.tool[1].name].method = m.name
\* createAgent made an agent with one tool per decorated method
OneToolPerMethod ==
    /\ pc = "made"
    /\ Cardinality(DOMAIN tools) = Cardinality(DecoratedMethods)
    /\ \A k \in DecoratedMethods : HasToolOf(config.methods[k])
\* the execute logged called the decorated method with the call arguments of the
\* @Arg names, in declaration order
ExecutePassesPositionally ==
    \A i \in DOMAIN toolLog :
        \E k \in DecoratedMethods :
            LET m == config.methods[k]
            IN  /\ toolLog[i].method = m.name
                /\ toolLog[i].name = m.tool[1].name
                /\ toolLog[i].passed =
                       [j \in DOMAIN DeclaredArgs(m) |->
                           IF DeclaredArgs(m)[j] \in toolLog[i].callArgs
                           THEN Some(DeclaredArgs(m)[j]) ELSE None]
\* the class is refused for want of @Agent, and no agent is made
RefusedUndecorated == pc = "refused" /\ error = Some(NotDecoratedError) /\ tools = NoTools
\* the agent made from a config object has the configured tools and no other
OnlyConfigured ==
    /\ pc = "made"
    /\ DOMAIN tools = {config.tools[i].schema.name : i \in DOMAIN config.tools}
    /\ \A i \in DOMAIN config.tools : tools[config.tools[i].schema.name] = config.tools[i]
\* every decorated method has @Arg on each parameter up to its last decorated
\* one, and no two decorated methods share a tool name
WellFormedClass ==
    /\ \A k \in DecoratedMethods :
          \A i \in DOMAIN ArgMetadata(config.methods[k].params) :
              ArgMetadata(config.methods[k].params)[i] # None
    /\ \A k, l \in DecoratedMethods :
          k # l => config.methods[k].tool[1].name # config.methods[l].tool[1].name

\* C28: once createAgent has returned or thrown: given a class with @Agent, the
\* agent made has exactly one tool per @Tool method, with the decorator's name and
\* description, and execute passes the call arguments positionally in @Arg
\* declaration order; given a class without @Agent, it threw 'is not decorated
\* with @Agent' and made no agent; given a config object, the agent made has the
\* configured tools only.
C28_CreateAgent ==
    pc # "factory" =>
        /\ (config.kind = "class" /\ config.agent) =>
               OneToolPerMethod /\ ExecutePassesPositionally
        /\ (config.kind = "class" /\ ~config.agent) => RefusedUndecorated
        /\ config.kind = "config" => OnlyConfigured

\* C28, for the classes it holds for: the same, when each decorated method has
\* @Arg on every parameter up to its last decorated one and no two decorated
\* methods share a tool name.
C28_CreateAgentWellFormed ==
    pc # "factory" =>
        /\ (config.kind = "class" /\ config.agent /\ WellFormedClass) =>
               OneToolPerMethod /\ ExecutePassesPositionally
        /\ (config.kind = "class" /\ ~config.agent) => RefusedUndecorated
        /\ config.kind = "config" => OnlyConfigured

\* a tool made from a method with two @Arg parameters has been executed
C28_Witness ==
    /\ pc = "made"
    /\ config.kind = "class"
    /\ toolLog # <<>>
    /\ Len(toolLog[1].passed) = 2
    /\ toolLog[1].passed[1] = Some("y")

\* createAgent threw on a decorated class whose tool method has an undecorated
\* parameter before a decorated one
C28_HoleRefused ==
    pc = "refused" /\ config.kind = "class" /\ config.agent /\ error = Some(HoleError)

\* ------------------------------------------ Autonomous: finish with other calls

\* the calls of the k-th response other than finish
OtherCalls(k) == SelectSeq(responses[k].toolCalls, LAMBDA tc : tc.name # FinishToolName)
\* callTool ran the tool body for the call
Executed(tc) == \E p \in 1..Len(trace) : trace[p][1] = "execute" /\ trace[p][3] = tc.id
\* the tool message of call a is in state.messages before that of call b
AnsweredBefore(a, b) ==
    \E i, j \in 1..Len(state.messages) :
        /\ i < j
        /\ state.messages[i].role = "tool" /\ state.messages[i].toolCallId = Some(a.id)
        /\ state.messages[j].role = "tool" /\ state.messages[j].toolCallId = Some(b.id)

\* C29: when an Autonomous run has returned from a turn that called finish together
\* with other tools, each of the turn's other calls was executed by callTool, in
\* order, and its tool message precedes the {done:true} message of finish.
C29_OtherCallsRunBeforeFinish ==
    (engine = "autonomous" /\ pc = "returned") =>
        \A k \in 1..Len(responses) :
            FinishCall(k) # None =>
                /\ \A n \in 1..Len(OtherCalls(k)) :
                      /\ Executed(OtherCalls(k)[n])
                      /\ AnsweredBefore(OtherCalls(k)[n], FinishCall(k)[1])
                /\ \A n, o \in 1..Len(OtherCalls(k)) :
                      n < o => AnsweredBefore(OtherCalls(k)[n], OtherCalls(k)[o])

\* what the engine does: a turn that calls finish is the last, and none of its
\* other calls is executed or answered; the run returns with the {done:true}
\* message of finish last, unless the turn's usage reached the budget.
C29_FinishSkipsOtherCalls ==
    engine = "autonomous" =>
        \A k \in 1..Len(responses) :
            FinishCall(k) # None =>
                /\ k = Len(responses)
                /\ \A n \in 1..Len(OtherCalls(k)) :
                      /\ ~Executed(OtherCalls(k)[n])
                      /\ \A i \in 1..Len(state.messages) :
                            state.messages[i].toolCallId # Some(OtherCalls(k)[n].id)
                /\ pc = "returned" => DoneMessage(FinishCall(k)[1])

\* a run returned from a turn that called search and finish
C29_Returned ==
    /\ engine = "autonomous" /\ pc = "returned"
    /\ FinishCall(Len(responses)) # None
    /\ OtherCalls(Len(responses)) # <<>>

\* ------------------------------------------ Autonomous: a turn without tool calls

\* no {done:true} tool message is in state.messages
NoFinishMessage ==
    \A i \in 1..Len(state.messages) :
        ~(state.messages[i].role = "tool" /\ state.messages[i].content = StringifyDone)
\* the run returned the stripped content of the k-th response, pushed as the
\* response step, with the response's own message the last of state.messages
AnsweredWithContent(k) ==
    /\ pc = "returned"
    /\ output = Some(ExtractText(responses[k].message.content))
    /\ LastStep = [type |-> "response", content |-> output[1], engine |-> "autonomous"]
    /\ LastMessage = responses[k].message
    /\ NoFinishMessage

Starts(k) ==
    {p \in 1..Len(trace) : /\ trace[p][1] = "task" /\ trace[p][2] = Plan[k].id
                           /\ trace[p][3] = "in_progress"}
\* the sweep has gone past the k-th task: a later task was begun, or the loop ended
Passed(k) ==
    \/ \E l \in (k + 1)..Len(Plan) : Starts(l) # {}
    \/ phase = "synth" \/ pc = "returned"

Failures(k) ==
    {p \in 1..Len(trace) : /\ trace[p][1] = "task" /\ trace[p][2] = Plan[k].id
                           /\ trace[p][3] = "failed"}
\* the k-th task names the id among its dependencies
DependsOn(k, id) == \E d \in 1..Len(Plan[k].dependsOn) : Plan[k].dependsOn[d] = id
\* the run threw the task-failed error
TaskFailedThrown == pc = "thrown" /\ error # None /\ error[1][1] = "Error" /\ error[1][2] = "Task failed"

\* the input of the synthesis call, once it is made
SynthInput == IF engine = "planner" /\ pc # "start" THEN frame.synthInput ELSE None

C32_WitnessThrown ==
    /\ engine = "planner" /\ ~config.allowReplan /\ TaskFailedThrown
    /\ Len(Plan) >= 2 /\ Plan[1].status = "failed" /\ Plan[2].status = "pending"

\* ------------------------------------------------ Planner: the text of the plan

\* the text is a JSON array of tasks, each with an id, a description, and for
\* dependsOn an array of ids or nothing
UsablePlanText(content) ==
    LET parsed == ParseJSON(content)
    IN  /\ parsed # None
        /\ parsed[1] # "object"
        /\ \A k \in 1..Len(parsed[1]) :
              /\ parsed[1][k].id # None
              /\ parsed[1][k].description # Undefined
              /\ parsed[1][k].dependsOn # None => HasFilter(parsed[1][k].dependsOn[1])
\* the plan is the single task wrapping the user input
IsFallbackPlan ==
    /\ Len(Plan) = 1
    /\ Plan[1].id = "t1" /\ Plan[1].description = Input /\ Plan[1].dependsOn = <<>>
\* the planning response was received and callModel returned it
Planned == engine = "planner" /\ Plan # <<>>

\* C33: once the plan is made, if the planning response was not a usable JSON
\* array of tasks the plan is the single task {id: 't1', description: the user
\* input, dependsOn: []}, and the run never throws because of the plan text.
C33_UnusablePlanFallsBack ==
    Planned =>
        /\ ~UsablePlanText(responses[1].message.content) => IsFallbackPlan
        /\ error # Some(FilterError)

\* what _makePlan does: a text that JSON.parse refuses, or that is no array, gives
\* the single task wrapping the user input; the plan is pushed with every task
\* pending.
C33_UnparseablePlanFallsBack ==
    Planned =>
        LET parsed == ParseJSON(responses[1].message.content)
        IN  (parsed = None \/ parsed[1] = "object") => IsFallbackPlan

\* the run threw a TypeError on a plan whose second task has a string for dependsOn,
\* after executing the first
C33_ThrownOnPlanText ==
    /\ engine = "planner" /\ pc = "thrown" /\ error = Some(FilterError)
    /\ Len(Plan) = 2 /\ Plan[1].status = "done" /\ Plan[2].status = "pending"

\* the run returned on the plan made of [{}]: one task with a generated id and no
\* description
C33_ReturnedOnEmptyTask ==
    /\ engine = "planner" /\ pc = "returned"
    /\ Len(Plan) = 1 /\ Plan[1].id = "uuid" /\ Plan[1].description = Undefined

\* --------------------------------------------------- Reflect: a malformed critique

\* the k-th response answers a critique call
IsCritique(k) ==
    engine = "reflect" /\ \E c \in CritiqueResponses : c.content = responses[k].message.content
\* JSON.parse refuses the text of the critique
Unparseable(content) == CritiqueParse(Trim(Unfence(content))) = None
\* the text is no critique object: JSON.parse refuses it, or the object lacks the
\* fields of a critique
Malformed(content) ==
    \/ Unparseable(content)
    \/ CritiqueParse(Trim(Unfence(content)))[1].issues = Undefined
\* the run accepted its answer on the fallback critique: a reflection step with
\* score 9 and needsRevision false, then the response step, and the return
AcceptedOnFallback ==
    /\ pc = "returned"
    /\ output = Some(frame.answer)
    /\ LastStep = [type |-> "response", content |-> frame.answer, engine |-> "reflect"]
    /\ state.steps[Len(state.steps) - 1] =
           [type |-> "reflection", assessment |-> <<"Score", FallbackScore, <<>>, <<>>>>,
            needsRevision |-> FALSE, engine |-> "reflect"]

\* C34: a critique response of a Reflect run that is no well-formed critique object
\* (a text JSON.parse refuses, or JSON lacking score, issues, suggestion,
\* needs_revision) is the last model call of the run, the token budget allowing:
\* the run does not fail, a reflection step with score 9 and needsRevision false is
\* pushed, and the current answer is returned.
C34_MalformedCritiqueAccepted ==
    \A k \in 1..Len(responses) :
        (IsCritique(k) /\ Malformed(responses[k].message.content)) =>
            /\ k = Len(responses)
            /\ IF ReachedBudget(responses[k])
               THEN pc = "thrown" /\ error = Some(<<"Error", "Token budget exceeded">>)
               ELSE AcceptedOnFallback

\* what _critique does: the same, for the texts JSON.parse refuses.
C34_UnparseableCritiqueAccepted ==
    \A k \in 1..Len(responses) :
        (IsCritique(k) /\ Unparseable(responses[k].message.content)) =>
            /\ k = Len(responses)
            /\ IF ReachedBudget(responses[k])
               THEN pc = "thrown" /\ error = Some(<<"Error", "Token budget exceeded">>)
               ELSE AcceptedOnFallback

\* the run threw a TypeError on the critique {}
C34_ThrownOnEmptyCritique ==
    /\ engine = "reflect" /\ pc = "thrown" /\ error = Some(JoinError)
    /\ responses[Len(responses)].message.content = <<"{}">>

\* the run returned its answer on a critique that is no JSON
C34_AcceptedUnparseable ==
    /\ engine = "reflect" /\ AcceptedOnFallback
    /\ responses[Len(responses)].message.content = <<"looks", "good">>

\* ------------------------------------------- Chain-of-Thought: the tool steps

\* the responses of the run that call tools, and those after the first pass
ToolTurns == {k \in 1..Len(responses) : responses[k].toolCalls # <<>>}
FurtherToolTurns == {k \in ToolTurns : k >= 2}
MaxToolStepsThrown == pc = "thrown" /\ error = Some(<<"Error", "Max tool steps reached">>)
\* the content of some message holds the thinking instruction
Instructed(messages) ==
    \E i \in 1..Len(messages) :
        FirstIndex(messages[i].content, ThinkingInstruction[1], 1) > 0

\* C35: a Chain-of-Thought run throws the max-tool-steps error only when the
\* model has used tools in more than maxToolSteps turns after the first pass; the
\* thinking instruction is in the messages sent on the first call, in no later
\* call's messages, and never in state.messages.
C35_ToolStepsAfterFirstPass ==
    engine = "cot" =>
        /\ MaxToolStepsThrown => Cardinality(FurtherToolTurns) > config.maxToolSteps
        /\ ~Instructed(state.messages)
        /\ (pc # "start" /\ Len(responses) = 1) => Instructed(frame.sent)
        /\ (pc # "start" /\ Len(responses) > 1) => ~Instructed(frame.sent)

\* what the engine does: the first pass counts as a tool step.  The error is
\* thrown as soon as tools were used in maxToolSteps turns, the first pass
\* included (in 1 turn if maxToolSteps is below 1), with no model call after the
\* last of them; the instruction is sent on the first call only.
C35_ToolStepsCountFirstPass ==
    engine = "cot" =>
        /\ MaxToolStepsThrown =>
              /\ Cardinality(ToolTurns) = IF config.maxToolSteps < 1 THEN 1
                                          ELSE config.maxToolSteps
              /\ ToolTurns = 1..Len(responses)
        /\ ~Instructed(state.messages)
        /\ (pc # "start" /\ Len(responses) = 1) => Instructed(frame.sent)
        /\ (pc # "start" /\ Len(responses) > 1) => ~Instructed(frame.sent)

\* the run threw the max-tool-steps error after maxToolSteps tool turns in all
C35_ThrownAtMaxToolSteps ==
    /\ engine = "cot" /\ MaxToolStepsThrown
    /\ Cardinality(FurtherToolTurns) = config.maxToolSteps - 1

\* ------------------------------------------- the answer in the transcript

\* the message is an assistant message that carries the text: as its content,
\* with the thinking blocks stripped or not, or as the result of its finish call
Carries(msg, text) ==
    /\ msg.role = "assistant"
    /\ \/ msg.content = text
       \/ ExtractText(msg.content) = text
       \/ \E c \in 1..Len(msg.toolCalls) :
             /\ msg.toolCalls[c].name = FinishToolName
             /\ msg.toolCalls[c].arguments.result = Some(text)
\* some message of state.messages, which the runtime writes to memory, carries
\* the output of the run
AnswerInTranscript == \E i \in 1..Len(state.messages) : Carries(state.messages[i], output[1])

\* C36: when engine.execute has returned output o, state.messages holds an
\* assistant message that carries o; for every built-in engine.
C36_AnswerInTranscript ==
    pc = "returned" => AnswerInTranscript

\* the same for the engines that push the answering message to state.messages:
\* ReAct, Chain-of-Thought, Autonomous and the passthrough engine; and for
\* Reflect when no revision was made.
C36_AnswerInTranscriptOfLoopEngines ==
    /\ (pc = "returned" /\ engine \in {"react", "cot", "autonomous", "passthrough"}) =>
          AnswerInTranscript
    /\ (pc = "returned" /\ engine = "reflect" /\ frame.i = 0) => AnswerInTranscript

\* a Planner run returned its synthesis, which no message of state.messages carries
C36_PlannerAnswerMissing ==
    engine = "planner" /\ pc = "returned" /\ ~AnswerInTranscript

\* a Reflect run returned a revised answer, which no message of state.messages carries
C36_ReflectAnswerMissing ==
    engine = "reflect" /\ pc = "returned" /\ frame.i > 0 /\ ~AnswerInTranscript

\* ------------------------------- SlidingWindowMemory attached to an agent that runs

\* what memory.read gives for the session of the runs, system messages apart
StoredConversation == NonSystem(ProviderRead(memory, RunSession))
\* the runs begun so far have each added one user message and, if the engine
\* answered, one assistant message to the conversation
ConversationBound == 2 * runNo

\* C37: with SlidingWindowMemory attached, whatever the number of runs in the
\* session, the session holds each conversation message once: read returns no
\* more than the user message and the answer of each run.
C37_SlidingStoresOnce ==
    memory.type = "sliding" => Len(StoredConversation) <= ConversationBound

\* the same for BufferMemory, whose write replaces the session.
C37_BufferStoresOnce ==
    memory.type = "buffer" => Len(StoredConversation) <= ConversationBound

\* after two runs with SlidingWindowMemory, read returns the first run's question
\* and answer twice, then the second run's
C37_SlidingStoredTwice ==
    /\ memory.type = "sliding" /\ runNo = 2 /\ pc = "resolved"
    /\ Len(StoredConversation) = 6
    /\ StoredConversation[1] = StoredConversation[3]
    /\ StoredConversation[2] = StoredConversation[4]

\* ------------------------------------------------------ the token budget

RECURSIVE TotalThrough(_)
\* usage.totalTokens once the first k responses of the run are accumulated
TotalThrough(k) ==
    IF k = 0 THEN 0
    ELSE TotalThrough(k - 1)
         + (IF responses[k].usage = None THEN 0 ELSE responses[k].usage[1].totalTokens)
\* the k-th response reported usage that brought the total to the budget or above
BroughtPastBudget(k) ==
    responses[k].usage # None /\ OverBudget(TotalThrough(k), policy.tokenBudget)
\* nothing follows the k-th response: no model call after it, no tool call at all
LastCall(k) == k = Len(responses) /\ pc \notin {"model", "tool"}

\* C38: in every engine configuration, the response that brings
\* state.usage.totalTokens to policy.tokenBudget or above is the last call of the
\* run: no model call and no tool call follows it.
C38_BudgetIsHardAbort ==
    \A k \in 1..Len(responses) : BroughtPastBudget(k) => LastCall(k)

\* the same, Planner with allowReplan true apart; there the run has thrown.
C38_BudgetIsHardAbortUnlessReplan ==
    (engine = "planner" => ~config.allowReplan) =>
        \A k \in 1..Len(responses) :
            BroughtPastBudget(k) =>
                LastCall(k) /\ (engine # "passthrough" => pc = "thrown")

\* Planner with allowReplan true: a task's response reached the budget, the task
\* was marked failed, and a model call was made after it
C38_CallAfterBudget ==
    /\ engine = "planner" /\ config.allowReplan
    /\ \E k \in 1..(Len(responses) - 1) : BroughtPastBudget(k)
    /\ \E j \in 1..Len(Plan) : Plan[j].status = "failed"

\* ------------------------------------------------- the tool:before middleware

\* the tool:before middleware of the agent, in registration order, and the first
\* of them that does not call its continuation (0: each one does)
BeforeChain == SelectSeq(middlewares, LAMBDA m : m.scope = None \/ "tool:before" \in m.scope[1])
BeforeStop ==
    LET stops == {i \in 1..Len(BeforeChain) : BeforeChain[i].act # "next"}
    IN  IF stops = {} THEN 0 ELSE CHOOSE i \in stops : \A j \in stops : i <= j
\* the tool:before middleware invoked for the call, in order
BeforeInvoked(callId) ==
    LET at == SelectSeq(trace, LAMBDA t : /\ t[1] = "middleware" /\ t[2] = "tool:before"
                                          /\ t[4] = callId)
    IN  [i \in 1..Len(at) |-> at[i][3]]
\* callTool invoked the tool body for the call
BodyInvoked(callId) ==
    \E p \in 1..Len(trace) : trace[p][1] = "execute" /\ trace[p][3] = callId
\* how many tool messages, tool_result steps and toolCalls pairs the call has
MessagesOfCall(callId) ==
    Cardinality({i \in 1..Len(state.messages) :
        state.messages[i].role = "tool" /\ state.messages[i].toolCallId = Some(callId)})
ToolResultSteps(callId) ==
    Cardinality({i \in 1..Len(state.steps) :
        state.steps[i].type = "tool_result" /\ state.steps[i].callId = callId})
ToolCallPairs(callId) ==
    Cardinality({i \in 1..Len(state.toolCalls) : state.toolCalls[i].call.id = callId})
\* the calls for which callTool reached the tool:before middleware
BeforeCalls == {trace[p][3] : p \in {q \in 1..Len(trace) :
                                        trace[q][1] = "emit" /\ trace[q][2] = "tool:before"}}

\* C39: for each call that reaches the tool:before middleware: the middleware are
\* invoked in order up to the first that does not call its continuation.  If that
\* one throws, the tool body is not invoked and the call has no tool message, no
\* tool_result step and no toolCalls pair.  Otherwise (it returns, or each one
\* continues) the tool body is invoked and the call has one of each.
C39_OnlyThrowPreventsTool ==
    engine # "passthrough" =>
        \A c \in BeforeCalls :
            /\ BeforeInvoked(c) =
                  [i \in 1..(IF BeforeStop = 0 THEN Len(BeforeChain) ELSE BeforeStop) |->
                      BeforeChain[i].name]
            /\ IF BeforeStop # 0 /\ BeforeChain[BeforeStop].act = "throw"
               THEN /\ ~BodyInvoked(c)
                    /\ MessagesOfCall(c) = 0 /\ ToolResultSteps(c) = 0 /\ ToolCallPairs(c) = 0
               ELSE /\ BodyInvoked(c)
                    /\ MessagesOfCall(c) = 1 /\ ToolResultSteps(c) = 1 /\ ToolCallPairs(c) = 1

\* a tool:before middleware returned without calling its continuation, the one
\* after it was not invoked, and the tool body ran
C39_Witness ==
    /\ BeforeStop # 0 /\ BeforeStop < Len(BeforeChain)
    /\ BeforeChain[BeforeStop].act = "skip"
    /\ \E c \in BeforeCalls : BodyInvoked(c) /\ Len(BeforeInvoked(c)) = BeforeStop

\* a tool:before middleware threw and the tool body did not run
C39_WitnessThrown ==
    /\ BeforeStop # 0 /\ BeforeChain[BeforeStop].act = "throw"
    /\ \E c \in BeforeCalls : ~BodyInvoked(c)

\* ------------------------------------------------------------- termination

\* the steps of one run: engine.execute from its start to its return or throw
OneRun ==
    \/ RunStart
    \/ PassthroughModel
    \/ ReactModel
    \/ ReactTool
    \/ AutonomousModel
    \/ AutonomousTool
    \/ CotModel
    \/ CotTool
    \/ PlannerPlan
    \/ PlannerTaskModel
    \/ PlannerTool
    \/ PlannerSynth
    \/ ReflectGenerate
    \/ ReflectCritique
    \/ ReflectRevise
    \/ ReflectReviseFinal
    \/ ReflectTool

\* one run in which every model call, tool call and middleware returns: a run
\* that can take a step takes it
FairSpec == Init /\ [][OneRun]_vars /\ WF_vars(OneRun)

\* the model calls a run of the engine may make
ModelCallBound ==
    CASE engine \in {"react", "autonomous"} -> config.maxSteps
      [] engine = "cot" -> IF config.maxToolSteps > 1 THEN config.maxToolSteps ELSE 1
      [] engine = "reflect" -> config.maxAnswerSteps + 3 * config.maxReflections
      [] engine = "planner" -> 2 + MaxTaskSteps * Len(Plan)
      [] OTHER -> 1

\* C40: every run of every engine returns or throws, whatever the model answers,
\* having made at most maxSteps model calls (ReAct, Autonomous), max(1,
\* maxToolSteps) (Chain-of-Thought), maxAnswerSteps + 3 * maxReflections (Reflect),
\* 2 + 5 * the number of plan tasks (Planner).
C40_TerminatesWithinBound ==
    /\ [](Len(responses) <= ModelCallBound)
    /\ (~Finished ~> Finished)

\* a Planner run that ended after 2 + 5 * (number of tasks) model calls
C40_Witness ==
    /\ engine = "planner" /\ Finished
    /\ Plan # <<>>
    /\ Len(responses) = ModelCallBound

\* a Reflect run that returned after maxAnswerSteps + 3 * maxReflections model calls
C40_WitnessReflect ==
    /\ engine = "reflect" /\ pc = "returned" /\ config.maxReflections > 0
    /\ Len(responses) = ModelCallBound

====
